---- MODULE Spec2Model ----
(***************************************************************************)
(* Model of getBusinessDetailsFromPlaces: the lookup function of           *)
(* src/src/index.ts behind the HTTP handler of src/src/server.ts, and the  *)
(* variant of src/unnamed/part_002 with its module-level model and filter  *)
(* caches.                                                                 *)
(*                                                                         *)
(* A string is a sequence of characters; a character is a one-symbol       *)
(* string.  A precomposed accented letter is written base+mark ("e+acute") *)
(* and a combining mark "+mark", so that Unicode decomposition (NFD) and   *)
(* the removal of the combining marks are computed, not assumed.           *)
(***************************************************************************)
EXTENDS Integers, Sequences, FiniteSets, TLC

(***************************************************************************)
(* Characters                                                              *)
(***************************************************************************)
UpperLetters ==
  <<"A","B","C","D","E","F","G","H","I","J","K","L","M",
    "N","O","P","Q","R","S","T","U","V","W","X","Y","Z">>

LowerLetters ==
  <<"a","b","c","d","e","f","g","h","i","j","k","l","m",
    "n","o","p","q","r","s","t","u","v","w","x","y","z">>

Digits == {"0","1","2","3","4","5","6","7","8","9"}

\* The characters matched by \s that occur in the inputs.
Whitespace == {" "}

\* The combining marks of the range U+0300..U+036F that occur in the inputs.
CombiningMarks == {"+acute", "+grave", "+circ", "+cedil", "+trema"}

\* String.prototype.normalize("NFD") on one character: a precomposed letter
\* becomes its base letter followed by its combining mark.
Decompose(c) ==
  CASE c = "e+acute" -> <<"e", "+acute">>
    [] c = "E+acute" -> <<"E", "+acute">>
    [] c = "e+grave" -> <<"e", "+grave">>
    [] c = "e+circ"  -> <<"e", "+circ">>
    [] c = "a+grave" -> <<"a", "+grave">>
    [] c = "a+circ"  -> <<"a", "+circ">>
    [] c = "i+circ"  -> <<"i", "+circ">>
    [] c = "o+circ"  -> <<"o", "+circ">>
    [] c = "u+circ"  -> <<"u", "+circ">>
    [] c = "c+cedil" -> <<"c", "+cedil">>
    [] OTHER -> <<c>>

RECURSIVE NFD(_)
NFD(s) == IF s = <<>> THEN <<>> ELSE Decompose(Head(s)) \o NFD(Tail(s))

UpperSet == {UpperLetters[i] : i \in 1..26}
LowerSet == {LowerLetters[i] : i \in 1..26}

IsUpper(c) == c \in UpperSet
IsLower(c) == c \in LowerSet

\* The lowercase of each uppercase letter, the uppercase of each lowercase one.
LowerOf == [c \in UpperSet |-> LowerLetters[CHOOSE i \in 1..26 : UpperLetters[i] = c]]
UpperOf == [c \in LowerSet |-> UpperLetters[CHOOSE i \in 1..26 : LowerLetters[i] = c]]

\* The class [a-zA-Z0-9\s].
IsAlnumOrSpace(c) == IsUpper(c) \/ IsLower(c) \/ c \in Digits \/ c \in Whitespace

\* String.prototype.toLowerCase on one character.
LowerChar(c) ==
  IF IsUpper(c) THEN LowerOf[c]
  ELSE IF c = "E+acute" THEN "e+acute" ELSE c

\* String.prototype.toUpperCase on one character.
UpperChar(c) ==
  IF IsLower(c) THEN UpperOf[c]
  ELSE IF c = "e+acute" THEN "E+acute" ELSE c

(***************************************************************************)
(* Strings                                                                 *)
(***************************************************************************)
ToLowerCase(s) == [i \in 1..Len(s) |-> LowerChar(s[i])]
ToUpperCase(s) == [i \in 1..Len(s) |-> UpperChar(s[i])]

\* replace(/[\u0300-\u036f]/g, "")
RemoveMarks(s) == SelectSeq(s, LAMBDA c : c \notin CombiningMarks)

\* replace(/[^a-zA-Z0-9\s]/g, '')
KeepAlnumSpace(s) == SelectSeq(s, IsAlnumOrSpace)

RECURSIVE TrimLeft(_)
TrimLeft(s) ==
  IF s # <<>> /\ Head(s) \in Whitespace THEN TrimLeft(Tail(s)) ELSE s

RECURSIVE TrimRight(_)
TrimRight(s) ==
  IF s # <<>> /\ s[Len(s)] \in Whitespace
  THEN TrimRight(SubSeq(s, 1, Len(s) - 1))
  ELSE s

\* String.prototype.trim
Trim(s) == TrimRight(TrimLeft(s))

\* String.prototype.includes
Includes(s, t) ==
  \E i \in 0..(Len(s) - Len(t)) : SubSeq(s, i + 1, i + Len(t)) = t

\* split(/\s+/): the pieces between the maximal runs of whitespace; a leading
\* or trailing run leaves an empty piece, and "" splits into [""].
RECURSIVE SplitFrom(_, _, _, _)
SplitFrom(s, i, cur, acc) ==
  IF i > Len(s) THEN Append(acc, cur)
  ELSE IF s[i] \in Whitespace
       THEN IF i > 1 /\ s[i - 1] \in Whitespace
            THEN SplitFrom(s, i + 1, cur, acc)
            ELSE SplitFrom(s, i + 1, <<>>, Append(acc, cur))
       ELSE SplitFrom(s, i + 1, Append(cur, s[i]), acc)

SplitWhitespace(s) == SplitFrom(s, 1, <<>>, <<>>)

\* The set of the elements of a sequence (Array.prototype.includes tests
\* membership in it).
Elems(q) == {q[i] : i \in 1..Len(q)}

\* The normalize helper: strip accents, keep alphanumerics and spaces,
\* lowercase, trim.
normalize(str) == Trim(ToLowerCase(KeepAlnumSpace(RemoveMarks(NFD(str)))))

(***************************************************************************)
(* Word lists                                                              *)
(***************************************************************************)
\* index.ts: the name words that are never significant.
commonNameWordsToFilter ==
  { <<"d","u">>, <<"d","e">>, <<"l","a">>, <<"l","e">>, <<"d","e","s">>, <<"e","t">>,
    <<"a">>, <<"u","n">>, <<"u","n","e">>, <<"t","h","e">>,
    <<"m","u","s","e","u","m">>, <<"l">> }

\* The generic street types, never significant in an address.
commonAddressWordsToFilter ==
  { <<"r","o","u","t","e">>, <<"r","u","e">>, <<"a","v","e","n","u","e">>,
    <<"c","h","e","m","i","n">>, <<"i","m","p","a","s","s","e">>, <<"p","l","a","c","e">>,
    <<"b","l","d">>, <<"b","o","u","l","e","v","a","r","d">>, <<"s","t">>,
    <<"s","a","i","n","t">>, <<"s","t","r","e","e","t">>, <<"r","o","a","d">>,
    <<"c","o","u","r","t">>, <<"l","a","n","e">>, <<"d","r","i","v","e">>,
    <<"t","e","r","r","a","c","e">> }

\* part_002: the hardcoded list the generic-word set is built from, as written
\* (accented entries keep their accents).
commonWordsList ==
  { <<"0","3">>, <<"0","9">>, <<"1">>, <<"1","0">>, <<"1","0","0">>, <<"1","1">>, <<"1","2">>, <<"1","3">>,
    <<"1","5">>, <<"1","6">>, <<"1","8">>, <<"1","9">>, <<"2">>, <<"2","0">>, <<"3">>, <<"3","7">>, <<"4">>,
    <<"5">>, <<"6">>, <<"7">>, <<"8">>, <<"a">>, <<"a","b","b","a","y","e">>, <<"a","b","e","i","l","l","e">>,
    <<"a","b","e","i","l","l","e","s">>, <<"a","b","e","r","s">>, <<"a","c","a","c","i","a","s">>,
    <<"a","g","r","i","c","o","l","e">>, <<"a","i","r">>, <<"a","l","p","i","n","e","s">>, <<"a","m","a","p">>,
    <<"a","p","i","c","o","l","e">>, <<"a","p","i","c","u","l","t","e","u","r">>,
    <<"a","p","i","c","u","l","t","u","r","e">>, <<"a","r">>, <<"a","r","c">>,
    <<"a","r","m","e","m","e","n","t">>, <<"a","r","t","i","s","a","n","a","l","e">>,
    <<"a","s","i","n","e","r","i","e">>, <<"a","s","p","e","r","g","e","s">>,
    <<"a","s","s","i","e","t","t","e">>, <<"a","s","s","o","c","i","a","t","i","o","n">>,
    <<"a","t","e","l","i","e","r">>, <<"a","t","e","l","i","e","r","s">>, <<"a","u">>,
    <<"a","u","b","e","r","g","e">>, <<"a","v","e","n","u","e">>, <<"a","v","i","c","o","l","e">>, <<"b">>,
    <<"b","a","i","e">>, <<"b","a","l","a","d","e">>, <<"b","a","r">>, <<"b","a","r","a","q","u","e","s">>,
    <<"b","a","s">>, <<"b","a","s","q","u","e">>, <<"b","a","s","s","e">>, <<"b","a","s","t","i","d","e">>,
    <<"b","a","t","e","a","u">>, <<"b","a","u","m","e">>, <<"b","e","a","u">>, <<"b","e","c">>,
    <<"b","e","l">>, <<"b","e","l","e","t","t","e">>, <<"b","e","l","l","e">>, <<"b","i","e","n">>,
    <<"b","i","e","r","e">>, <<"b","i","o">>, <<"b","i","s">>, <<"b","i","s","o","n","s">>,
    <<"b","l","a","n","c">>, <<"b","l","a","n","c","h","e">>, <<"b","l","a","n","c","h","e","s">>,
    <<"b","l","a","n","c","s">>, <<"b","l","e","u">>, <<"b","l","e","u","e">>, <<"b","l","e","u","e","s">>,
    <<"b","l","e+acute">>, <<"b","o","c","a","g","e">>, <<"b","o","e","u","f">>, <<"b","o","i","s">>,
    <<"b","o","n">>, <<"b","o","n","h","e","u","r">>, <<"b","o","n","n","e">>, <<"b","o","n","s">>,
    <<"b","o","r","d","e">>, <<"b","o","r","i","e">>, <<"b","o","s","c">>, <<"b","o","s","q","u","e","t">>,
    <<"b","o","u","c","h","e">>, <<"b","o","u","c","h","e","r","i","e">>, <<"b","o","u","l","a","n","g","e">>,
    <<"b","o","u","l","e","v","a","r","d">>, <<"b","o","u","r","g">>, <<"b","o","u","t">>,
    <<"b","o","u","t","i","q","u","e">>, <<"b","o","u","v","e","r","i","e">>,
    <<"b","r","a","s","s","e","r","i","e">>, <<"b","r","e","b","i","s">>, <<"b","r","i","e">>,
    <<"b","r","o","u","e","t","t","e">>, <<"b","r","o","u","s","s","e">>, <<"b","r","u","n">>,
    <<"b","r","u","y","e+grave","r","e">>, <<"b","r","u","y","e+grave","r","e","s">>, <<"b","u","i","s">>,
    <<"b","u","i","s","s","o","n">>, <<"b","u","l","l","e","s">>, <<"b","u","r","o","n">>, <<"b","y">>,
    <<"c","a","b","a","n","e">>, <<"c","a","b","a","n","o","n">>, <<"c","a","b","r","a">>,
    <<"c","a","b","r","a","s">>, <<"c","a","b","r","e","t","t","e","s">>, <<"c","a","b","r","i">>,
    <<"c","a","b","r","i","o","l","a","i","t">>, <<"c","a","b","r","i","o","l","e","s">>,
    <<"c","a","b","r","i","s">>, <<"c","a","f","e+acute">>, <<"c","a","g","o","u","i","l","l","e">>,
    <<"c","a","i","l","l","e","s">>, <<"c","a","l">>, <<"c","a","m","a","r","g","u","e">>, <<"c","a","m","p">>,
    <<"c","a","m","p","a","g","n","e">>, <<"c","a","m","p","i","n","g">>, <<"c","a","m","p","u","s">>,
    <<"c","a","n">>, <<"c","a","n","a","r","d">>, <<"c","a","n","a","r","d","s">>, <<"c","a","p">>,
    <<"c","a","p","r","i","c","e">>, <<"c","a","p","r","i","c","e","s">>, <<"c","a","r","r","e+acute">>,
    <<"c","a","s","s","e">>, <<"c","a","v","e">>, <<"c","a","v","e","a","u">>, <<"c","a","v","e","s">>,
    <<"c","a","v","i","a","r">>, <<"c","e","l","l","i","e","r">>, <<"c","e","n","t","r","e">>,
    <<"c","e","r","f","s">>, <<"c","e","s","t">>, <<"c","h","a","l","e","t","s">>,
    <<"c","h","a","m","b","r","e","s">>, <<"c","h","a","m","p">>,
    <<"c","h","a","m","p","i","g","n","o","n","s">>, <<"c","h","a","m","p","i">>, <<"c","h","a","m","p","s">>,
    <<"c","h","a","n","t">>, <<"c","h","a","n","t","e">>, <<"c","h","a","p","e","l","l","e">>,
    <<"c","h","a","r","c","u","t","e","r","i","e">>, <<"c","h","a","r","m","e">>,
    <<"c","h","a","r","m","e","s">>, <<"c","h","a","u","d","r","o","n">>, <<"c","h","a","u","m","e","s">>,
    <<"c","h","e","m","i","n">>, <<"c","h","e","m","i","n","s">>, <<"c","h","e","v","r","e","r","i","e">>,
    <<"c","h","e","v","r","e","s">>, <<"c","h","e","v","r","i","e","r","s">>, <<"c","h","e","z">>,
    <<"c","h","e+grave","v","r","e">>, <<"c","h","e+grave","v","r","e","r","i","e">>,
    <<"c","h","e+grave","v","r","e","s">>, <<"c","h","e+circ","n","e">>, <<"c","h","e+circ","n","e","s">>,
    <<"c","i","d","r","e">>, <<"c","i","d","r","e","r","i","e">>, <<"c","i","e">>, <<"c","i","e","l">>,
    <<"c","i","n","q">>, <<"c","i","r","o","n">>, <<"c","i","t","r","o","n">>, <<"c","i","t","e+acute">>,
    <<"c","l","a","i","r","e","t","t","e">>, <<"c","l","e","f">>, <<"c","l","o","s">>,
    <<"c","l","e+grave","d","e">>, <<"c","l","e+acute">>, <<"c","o","c","h","o","n">>,
    <<"c","o","c","h","o","n","s">>, <<"c","o","c","o","t","t","e">>, <<"c","o","c","o","t","t","e","s">>,
    <<"c","o","e","u","r">>, <<"c","o","i","n">>, <<"c","o","l","l","i","n","e">>,
    <<"c","o","l","l","i","n","e","s">>, <<"c","o","l","o","m","b","i","e","r">>, <<"c","o","m","b","e">>,
    <<"c","o","m","b","e","s">>, <<"c","o","m","m","a","n","d","e","r","i","e">>,
    <<"c","o","m","p","a","g","n","i","e">>, <<"c","o","m","p","t","o","i","r">>,
    <<"c","o","n","f","i","t","u","r","e","s">>, <<"c","o","n","s","e","r","v","e","s">>,
    <<"c","o","o","p","e+acute","r","a","t","i","v","e">>, <<"c","o","q","u","e","l","i","c","o","t","s">>,
    <<"c","o","q","u","i","l","l","a","g","e","s">>, <<"c","o","t","e">>, <<"c","o","t","e","a","u","x">>,
    <<"c","o","u","d","r","i","e","r","s">>, <<"c","o","u","r">>, <<"c","o","u","r","s">>,
    <<"c","r","e","s","s","o","n","n","i","e","r","e","s">>, <<"c","r","e","u","x">>,
    <<"c","r","i","n","i","e+grave","r","e","s">>, <<"c","r","o","i","x">>, <<"c","r","o","q","u","e","z">>,
    <<"c","r","u">>, <<"c","r","u","s">>, <<"c","u","e","i","l","l","e","t","t","e">>,
    <<"c","u","l","t","u","r","e","s">>, <<"c","e+grave","d","r","e","s">>, <<"c","o+circ","t","e">>,
    <<"c","o+circ","t","e","a","u","x">>, <<"c","o+circ","t","e+acute">>, <<"d">>,
    <<"d","a","b","e","i","l","l","e","s">>, <<"d","a","m","e">>, <<"d","a","m","o","u","r">>,
    <<"d","a","n","g","e+acute","l","i","q","u","e">>, <<"d","a","n","s">>, <<"d","e">>, <<"d","e","a","u">>,
    <<"d","e","l","i","c","e","s">>, <<"d","e+acute","l","i","c","e","s">>, <<"d","i","r","e","c","t">>,
    <<"d","i","s","t","i","l","l","e","r","i","e">>, <<"d","i","t">>, <<"d","o","m">>,
    <<"d","o","m","a","i","n","e">>, <<"d","o","m","a","i","n","e","s">>, <<"d","o","u">>,
    <<"d","o","u","c","e","u","r","s">>, <<"d","r","i","v","e">>, <<"d","u">>, <<"e","a","u","x">>,
    <<"e","c","o","l","e">>, <<"e","l","e","v","a","g","e">>, <<"e","l","e","v","e","u","r","s">>, <<"e","n">>,
    <<"e","n","c","l","o","s">>, <<"e","n","t","r","e">>, <<"e","p","i">>, <<"e","s","c","a","l","e","s">>,
    <<"e","s","c","a","r","g","o","t">>, <<"e","s","c","a","r","g","o","t","s">>, <<"e","s","p","a","c","e">>,
    <<"e","s","p","l","a","n","a","d","e">>, <<"e","s","s","a","r","t","s">>, <<"e","s","t">>, <<"e","t">>,
    <<"e","t","s">>, <<"e","u","r","l">>, <<"e","x">>, <<"e","x","p","l","o","i","t","a","t","i","o","n">>,
    <<"f","a","g","e">>, <<"f","a","m","i","l","l","e">>, <<"f","a","r","i","n","e">>, <<"f","e","r","m","e">>,
    <<"f","e","r","m","e","a","u","b","e","r","g","e">>, <<"f","e","r","m","e","s">>,
    <<"f","e","r","m","e","t","t","e">>, <<"f","e","r","m","i","e","r">>, <<"f","e","r","m","i","e","r","s">>,
    <<"f","e","r","m","i","e+grave","r","e">>, <<"f","e","r","m","i","e+grave","r","e","s">>,
    <<"f","i","g","u","e","s">>, <<"f","i","l">>, <<"f","i","l","l","e">>, <<"f","i","l","l","e","s">>,
    <<"f","i","l","s">>, <<"f","l","a","g","u","e","r","i","e">>, <<"f","l","e","u","r","i">>,
    <<"f","l","e","u","r","s">>, <<"f","l","o","r","a","l","e">>, <<"f","o","i","e">>,
    <<"f","o","l","i","e","s">>, <<"f","o","n","t">>, <<"f","o","n","t","a","i","n","e">>,
    <<"f","o","n","t","a","i","n","e","s">>, <<"f","o","r","e","z">>, <<"f","o","r","g","e","s">>,
    <<"f","o","r","e+circ","t">>, <<"f","o","u","r","c","h","e">>, <<"f","o","u","r","c","h","e","t","t","e">>,
    <<"f","o","u","r","n","i","l">>, <<"f","r","a","i","s">>, <<"f","r","a","i","s","e">>,
    <<"f","r","a","i","s","e","r","a","i","e">>, <<"f","r","a","i","s","e","s">>,
    <<"f","r","a","m","b","o","i","s","i","e","r">>, <<"f","r","a","n","c","e">>,
    <<"f","r","o","m","a","g","e","r","i","e">>, <<"f","r","o","m","a","g","e","s">>,
    <<"f","r","o","m","a","g","e+grave","r","e">>, <<"f","r","u","i","t">>,
    <<"f","r","u","i","t","i","e+grave","r","e">>, <<"f","r","u","i","t","s">>, <<"f","e+acute","e","s">>,
    <<"f","e+circ","t","e","s">>, <<"g","a","e","c">>, <<"g","a","r","d","e">>, <<"g","a","r","e">>,
    <<"g","a","r","e","n","n","e">>, <<"g","e+acute","n","e+acute","r","a","l">>, <<"g","i+circ","t","e">>,
    <<"g","i+circ","t","e","s">>, <<"h","a","i","e">>, <<"h","a","l","l","e">>, <<"h","a","l","l","e","s">>,
    <<"h","a","m","e","a","u">>, <<"h","a","u","t">>, <<"h","a","u","t","e">>, <<"h","a","u","t","e","s">>,
    <<"h","a","u","t","s">>, <<"h","e","l","i","x">>, <<"h","e","r","b","e">>, <<"h","e","r","b","e","s">>,
    <<"h","i","r","o","n","d","e","l","l","e","s">>, <<"h","o","p">>, <<"h","o","r","t","i","c","o","l","e">>,
    <<"h","o","r","t","i","c","u","l","t","e","u","r">>, <<"h","o","r","t","i","c","u","l","t","u","r","e">>,
    <<"h","o","t","e","l">>, <<"h","o","u","l","e","t","t","e">>, <<"h","u","i","l","e">>,
    <<"h","u","i","l","e","r","i","e">>, <<"h","u","i","l","e","s">>, <<"h","u","i+circ","t","r","e","s">>,
    <<"i","b","i","s">>, <<"i","g","n","a","m","e","s">>, <<"i","l","e">>, <<"i","m","p","a","s","s","e">>,
    <<"j">>, <<"j","a","r","d","i","n">>, <<"j","a","r","d","i","n","s">>, <<"j","a","s">>, <<"l","a">>,
    <<"l","a","b","b","a","y","e">>, <<"l","a","b","e","i","l","l","e">>, <<"l","a","b","o","r","i","e">>,
    <<"l","a","c">>, <<"l","a","c","s">>, <<"l","a","g","n","e","a","u">>, <<"l","a","i","r","e">>,
    <<"l","a","i","r","i","a","l">>, <<"l","a","i","t">>, <<"l","a","i","t","e","r","i","e">>,
    <<"l","a","m","b","r","o","i","s","i","e">>, <<"l","a","n">>, <<"l","a","n","d","e">>,
    <<"l","a","n","d","e","s">>, <<"l","a","p","i","n">>, <<"l","a","r","b","r","e">>, <<"l","a","s">>,
    <<"l","a","s","s","i","e","t","t","e">>, <<"l","a","t","e","l","i","e","r">>,
    <<"l","a","u","b","e","r","g","e">>, <<"l","a","v","a","n","d","e","s">>,
    <<"l","a","v","a","n","d","i","n">>, <<"l","a","v","o","i","r">>, <<"l","a","y">>, <<"l","e">>,
    <<"l","e","a","u">>, <<"l","e","c","h","e","l","l","e">>, <<"l","e","c","o","l","e">>,
    <<"l","e","g","l","i","s","e">>, <<"l","e","n","c","l","o","s">>, <<"l","e","s">>,
    <<"l","e","s","c","a","r","g","o","t">>, <<"l","e","s","c","a","r","g","o","t","i","e+grave","r","e">>,
    <<"l","e","s","p","e+acute","r","a","n","c","e">>, <<"l","e","s","s","e","n","c","i","e","l">>,
    <<"l","e","s","s","e","n","t","i","e","l">>, <<"l","h","e","r","b","i","e","r">>, <<"l","h","e","r","m">>,
    <<"l","h","e","r","m","i","t","a","g","e">>, <<"l","i","b","e","r","t","e+acute">>,
    <<"l","i","b","r","e","s">>, <<"l","i","e","u">>, <<"l","i","l","a","s">>, <<"l","i","l","e">>,
    <<"l","i","l","l">>, <<"l","i","l","o","t">>, <<"l","i","m","o","u","s","i","n">>,
    <<"l","i","m","o","u","s","i","n","e">>, <<"l","i","o","u","n","e","r">>,
    <<"l","i","v","r","a","i","s","o","n">>, <<"l","o">>, <<"l","o","c","a","l">>,
    <<"l","o","c","a","v","o","r">>, <<"l","o","g","e","s">>, <<"l","o","g","i","s">>, <<"l","o","i","r","e">>,
    <<"l","o","i","s","e","a","u">>, <<"l","o","m","i","g","n","o","n">>, <<"l","o","n","g">>, <<"l","o","r">>,
    <<"l","o","r","i","o","t">>, <<"l","o","r","m","e">>, <<"l","o","r","r","a","i","n">>,
    <<"l","o","r","r","a","i","n","e">>, <<"l","o","r","e+acute","e">>, <<"l","o","u","p">>,
    <<"l","o","u","r","s">>, <<"l","u","b","e","r","o","n">>, <<"l","y","c","e+acute","e">>,
    <<"l","e+acute","g","u","m","e","s">>, <<"l","e+acute","t","a","b","l","e">>, <<"m">>, <<"m","a">>,
    <<"m","a","d","a","m","e">>, <<"m","a","g","a","s","i","n">>, <<"m","a","i","l">>, <<"m","a","i","n","e">>,
    <<"m","a","i","r","i","e">>, <<"m","a","i","s","o","n">>, <<"m","a","i","s","o","n","s">>,
    <<"m","a","n","a","d","e">>, <<"m","a","n","o","i","r">>, <<"m","a","n","e+acute">>,
    <<"m","a","r","a","i","c","h","e","r">>, <<"m","a","r","a","i","c","h","e+grave","r","e">>,
    <<"m","a","r","a","i","s">>, <<"m","a","r","a","i+circ","c","h","a","g","e">>,
    <<"m","a","r","a","i+circ","c","h","e","r">>, <<"m","a","r","a","i+circ","c","h","e+grave","r","e">>,
    <<"m","a","r","c","h","e">>, <<"m","a","r","c","h","e+acute">>, <<"m","a","r","e">>,
    <<"m","a","r","g","u","e","r","i","t","e">>, <<"m","a","r","r","o","n","n","i","e","r","s">>,
    <<"m","a","s">>, <<"m","e","i","n","a","u">>, <<"m","e","r">>, <<"m","e","r","l","e">>,
    <<"m","e","s","l","a","y">>, <<"m","e","s","n","i","l">>, <<"m","e","u","h","g">>,
    <<"m","e","u","l","e","s">>, <<"m","i","e","l">>, <<"m","i","e","l","l","e","r","i","e">>,
    <<"m","i","e","l","s">>, <<"m","i","g","n","o","n">>, <<"m","i","l","l","e">>, <<"m","i","l","l","e","t">>,
    <<"m","i","m","o","s","a","s">>, <<"m","i","n","e","r","v","o","i","s">>,
    <<"m","i","r","a","b","e","l","l","e">>, <<"m","o","h","a","i","r">>, <<"m","o","i">>, <<"m","o","n">>,
    <<"m","o","n","d","e">>, <<"m","o","n","t">>, <<"m","o","n","t","a","g","n","e">>,
    <<"m","o","n","t","a","g","n","e","s">>, <<"m","o","n","t","s">>, <<"m","o","t","t","e">>,
    <<"m","o","u","l","i","n">>, <<"m","o","u","l","i","n","s">>, <<"m","o","u","n">>,
    <<"m","o","u","t","o","n">>, <<"m","o","u","t","o","n","s">>, <<"m","o","u","t","t","e">>,
    <<"m","u","s","e+acute","e">>, <<"m","y","r","t","i","l","l","e">>,
    <<"m","e+acute","t","a","i","r","i","e">>, <<"n","a","t","u","r","e">>,
    <<"n","a","t","u","r","e","l","l","e","m","e","n","t">>, <<"n","e","u","f">>, <<"n","e","u","v","e">>,
    <<"n","o","i","r">>, <<"n","o","i","r","e">>, <<"n","o","i","s","e","t","t","e">>, <<"n","o","i","x">>,
    <<"n","o","r","d">>, <<"n","o","r","m","a","n","d">>, <<"n","o","r","m","a","n","d","e">>,
    <<"n","o","r","m","a","n","d","e","s">>, <<"n","o","r","m","a","n","d","i","e">>, <<"n","o","s">>,
    <<"n","o","u","v","e","l","l","e">>, <<"o">>, <<"o","e","u","f","s">>, <<"o","i","e","s">>,
    <<"o","l","i","v","e","r","a","i","e">>, <<"o","l","i","v","i","e","r","s">>,
    <<"o","l","e+acute","i","c","o","l","e">>, <<"o","r","c","h","i","d","e+acute","e","s">>,
    <<"o","u","e","s","t">>, <<"o","u","r","s">>, <<"p","a","g","e","s">>, <<"p","a","i","l","l","e">>,
    <<"p","a","i","n">>, <<"p","a","i","n","s">>, <<"p","a","l","a","i","s">>, <<"p","a","n","i","e","r">>,
    <<"p","a","n","i","e","r","s">>, <<"p","a","p","i","l","l","e","s">>, <<"p","a","r","a","d","i","s">>,
    <<"p","a","r","c">>, <<"p","a","r","i","s">>, <<"p","a","r","k","i","n","g">>, <<"p","a","r","v","i","s">>,
    <<"p","a","s">>, <<"p","a","s","s","i","o","n">>, <<"p","a","s","t","o","r","a","l","e">>,
    <<"p","a","y","s">>, <<"p","a","y","s","a","n">>, <<"p","a","y","s","a","n","n","e">>,
    <<"p","a","y","s","a","n","n","e","s">>, <<"p","a","y","s","a","n","s">>, <<"p","e">>, <<"p","e","c","h">>,
    <<"p","e","p","i","n","i","e","r","e">>, <<"p","e","p","i","n","i","e","r","e","s">>,
    <<"p","e","r","r","i","e+grave","r","e">>, <<"p","e","t","i","t">>, <<"p","e","t","i","t","e">>,
    <<"p","e","t","i","t","e","s">>, <<"p","e","t","i","t","s">>, <<"p","i","c">>, <<"p","i","e","d","s">>,
    <<"p","i","g","e","o","n","n","e","a","u","x">>, <<"p","i","g","e","o","n","n","i","e","r">>,
    <<"p","i","g","e","o","n","s">>, <<"p","i","n">>, <<"p","i","s">>,
    <<"p","i","s","c","i","c","u","l","t","u","r","e">>, <<"p","l","a","c","e">>, <<"p","l","a","i","n","e">>,
    <<"p","l","a","i","s","a","n","c","e">>, <<"p","l","a","i","s","i","r","s">>, <<"p","l","a","n">>,
    <<"p","l","a","n","t","e","s">>, <<"p","l","a","s","s","o","n","s">>, <<"p","l","a","t","e","a","u">>,
    <<"p","l","e","i","n">>, <<"p","l","e","s","s","i","s">>, <<"p","l","u","m","e">>,
    <<"p","l","u","m","e","s">>, <<"p","o","i","n","t">>, <<"p","o","i","r","i","e","r">>, <<"p","o","m">>,
    <<"p","o","m","m","e","r","a","i","e">>, <<"p","o","m","m","e","s">>, <<"p","o","m","m","i","e","r">>,
    <<"p","o","n","t">>, <<"p","o","r","c">>, <<"p","o","r","c","s">>, <<"p","o","r","t">>,
    <<"p","o","r","t","a","i","l">>, <<"p","o","r","t","e">>, <<"p","o","r","t","e","s">>,
    <<"p","o","s","s","i","b","l","e","s">>, <<"p","o","t","a","g","e","r">>,
    <<"p","o","t","a","g","e","r","s">>, <<"p","o","t","a","v","e","r","g","e","r">>,
    <<"p","o","u","l","a","i","l","l","e","r">>, <<"p","o","u","l","e">>, <<"p","o","u","l","e","s">>,
    <<"p","o","u","l","e","t">>, <<"p","o","u","l","e","t","t","e","s">>, <<"p","r","a","d","e">>,
    <<"p","r","a","i","r","i","e">>, <<"p","r","a","i","r","i","e","s">>, <<"p","r","e">>, <<"p","r","e","s">>,
    <<"p","r","e","s","b","y","t","e+grave","r","e">>, <<"p","r","e","s","q","u","i+circ","l","e">>,
    <<"p","r","e","s","s","o","i","r">>, <<"p","r","i","e","u","r","e+acute">>, <<"p","r","i","m">>,
    <<"p","r","o","d","u","c","t","e","u","r">>, <<"p","r","o","d","u","c","t","e","u","r","s">>,
    <<"p","r","o","d","u","i","t","s">>, <<"p","r","o","v","e","n","c","e">>, <<"p","r","u","n","e","a","u">>,
    <<"p","r","e+acute">>, <<"p","r","e+acute","s">>, <<"p","t","i","t">>, <<"p","t","i","t","e">>,
    <<"p","t","i","t","e","s">>, <<"p","t","i","t","s">>, <<"p","u","e","c","h">>, <<"p","u","y">>,
    <<"p","y","r","e+acute","n","e+acute","e","s">>, <<"p","a+circ","t","e","s">>,
    <<"p","e+acute","d","a","g","o","g","i","q","u","e">>,
    <<"p","e+acute","p","i","n","i","e+grave","r","e","s">>, <<"p","e+acute","r","i","g","o","r","d">>,
    <<"p","e+circ","c","h","e">>, <<"p","e+circ","c","h","e","u","r","s">>, <<"q","u","a","t","r","e">>,
    <<"q","u","e","r","e","l","l","e">>, <<"q","u","i">>, <<"r","a","c","i","n","e","s">>,
    <<"r","a","n","c","h">>, <<"r","e","i","n","e","s">>, <<"r","e","l","a","i","s">>,
    <<"r","e","n","a","r","d">>, <<"r","e","s","t","a","u","r","a","n","t">>, <<"r","e","t","r","a","i","t">>,
    <<"r","h","u","y","s">>, <<"r","i","v","e">>, <<"r","i","v","i","e+grave","r","e">>,
    <<"r","i","v","i","e+grave","r","e","s">>, <<"r","o","c">>, <<"r","o","c","h","e">>,
    <<"r","o","c","h","e","r">>, <<"r","o","c","h","e","s">>, <<"r","o","i">>, <<"r","o","s","e">>,
    <<"r","o","s","e","s">>, <<"r","o","s","i","e","r">>, <<"r","o","s","s","i","g","n","o","l">>,
    <<"r","o","u","g","e">>, <<"r","o","u","g","e","s">>, <<"r","o","u","t","e">>, <<"r","u","c","h","e">>,
    <<"r","u","c","h","e","r">>, <<"r","u","c","h","e","r","s">>, <<"r","u","e">>,
    <<"r","e+acute","p","u","b","l","i","q","u","e">>, <<"s","a">>, <<"s","a","b","l","e","s">>,
    <<"s","a","b","l","o","n","s">>, <<"s","a","b","o","t","s">>, <<"s","a","f","r","a","n">>,
    <<"s","a","i","s","o","n">>, <<"s","a","i","s","o","n","s">>, <<"s","a","l","e","r","s">>,
    <<"s","a","l","l","e">>, <<"s","a","l","l","e","s">>, <<"s","a","u","v","a","g","e">>,
    <<"s","a","u","v","a","g","e","s">>, <<"s","a","u","v","e","u","r">>, <<"s","a","v","e","u","r">>,
    <<"s","a","v","e","u","r","s">>, <<"s","a","v","o","i","e">>, <<"s","a","v","o","n","n","e","r","i","e">>,
    <<"s","c","e","a">>, <<"s","c","e","v">>, <<"s","e","l">>, <<"s","e","l","l","e">>,
    <<"s","e","m","p","o","r","t","e">>, <<"s","e","n","s">>, <<"s","e","r","r","e">>,
    <<"s","e","r","r","e","s">>, <<"s","i">>, <<"s","i","m","p","l","e","s">>, <<"s","n","c">>,
    <<"s","n","c","f">>, <<"s","o","c","i","a","l">>, <<"s","o","l","d","a","n","e","l","l","e","s">>,
    <<"s","o","l","e","i","l">>, <<"s","o","l","o","g","n","e">>, <<"s","o","n","n","a","i","l","l","e","s">>,
    <<"s","o","r","b","e","t","s">>, <<"s","o","u","r","c","e">>, <<"s","o","u","r","c","e","s">>,
    <<"s","o","u","s">>, <<"s","p","i","r","u","l","i","n","e">>, <<"s","t">>, <<"s","t","a","d","e">>,
    <<"s","t","a","n","d">>, <<"s","u","d">>, <<"s","u","r">>, <<"s","u","s","c","i","n","i","o">>,
    <<"t","a","b","l","e">>, <<"t","a","p","i","a","u">>, <<"t","e","m","p","o","r","a","i","r","e">>,
    <<"t","e","m","p","s">>, <<"t","e","r","f","e","r","m","e">>, <<"t","e","r","r","a">>,
    <<"t","e","r","r","e">>, <<"t","e","r","r","e","f","o","r","t">>, <<"t","e","r","r","e","s">>,
    <<"t","e","r","r","o","i","r">>, <<"t","e","r","r","o","i","r","s">>, <<"t","i","l","l","e","u","l","s">>,
    <<"t","i","s","a","n","e","s">>, <<"t","o","m","e">>, <<"t","o","p">>, <<"t","o","u","r">>,
    <<"t","o","u","r","a","i","n","e">>, <<"t","o","u","r","s">>, <<"t","o","u","t">>,
    <<"t","r","a","d","i","t","i","o","n">>, <<"t","r","e","i","l","l","e">>, <<"t","r","o","i","s">>,
    <<"t","r","u","f","f","e">>, <<"t","r","u","i","t","e">>, <<"t","r","u","i","t","e","s">>,
    <<"t","r","e+acute","n","u","b","e">>, <<"t","u","i","l","e","r","i","e">>,
    <<"t","u","i","l","e","r","i","e","s">>, <<"t","y">>, <<"t","e+circ","t","e">>, <<"u">>, <<"u","n">>,
    <<"u","n","e">>, <<"u","r","b","a","i","n">>, <<"u","r","b","a","i","n","e">>, <<"v","a","c","h","e">>,
    <<"v","a","c","h","e","s">>, <<"v","a","l">>, <<"v","a","l","l","o","n">>, <<"v","a","l","l","o","n","s">>,
    <<"v","a","l","l","e+acute","e">>, <<"v","a","l","l","e+acute","e","s">>, <<"v","a","n","i","l","l","e">>,
    <<"v","e","n","t","e">>, <<"v","e","n","t","s">>, <<"v","e","r","g","e","r">>,
    <<"v","e","r","g","e","r","s">>, <<"v","e","r","t">>, <<"v","e","r","t","e">>, <<"v","e","r","t","e","s">>,
    <<"v","e","r","t","s">>, <<"v","i","a","n","d","e">>, <<"v","i","a","n","d","e","s">>, <<"v","i","e">>,
    <<"v","i","e","i","l","l","e">>, <<"v","i","e","u","x">>, <<"v","i","g","n","e">>,
    <<"v","i","g","n","e","r","o","n">>, <<"v","i","g","n","e","r","o","n","s">>, <<"v","i","g","n","e","s">>,
    <<"v","i","g","n","o","b","l","e">>, <<"v","i","g","n","o","b","l","e","s">>, <<"v","i","l","l","a">>,
    <<"v","i","l","l","a","g","e">>, <<"v","i","l","l","e">>, <<"v","i","n">>,
    <<"v","i","n","i","c","o","l","e">>, <<"v","i","n","s">>, <<"v","i","r","e">>, <<"v","i","v","i","e","r">>,
    <<"v","i","v","i","e","r","s">>, <<"v","o","i","e">>, <<"v","o","l","a","i","l","l","e">>,
    <<"v","o","l","a","i","l","l","e","s">>, <<"v","o","l","c","a","n","s">>, <<"v","o","s","g","e","s">>,
    <<"y","v","e","s">>, <<"z">>, <<"a+grave">>, <<"e+acute","c","o","l","e","s">>, <<"o+circ">> }

(***************************************************************************)
(* isValidMatch                                                            *)
(***************************************************************************)
Max(a, b) == IF a > b THEN a ELSE b
Min(a, b) == IF a < b THEN a ELSE b

\* x || 1 on a length
OrOne(n) == IF n = 0 THEN 1 ELSE n

\* The significant words of a name: longer than 2 and not in the filter.
NameWords(name, filter) ==
  SelectSeq(SplitWhitespace(normalize(name)),
            LAMBDA w : Len(w) > 2 /\ w \notin filter)

\* The significant words of an address: longer than 3 and no street type.
AddrWords(addr) ==
  SelectSeq(SplitWhitespace(normalize(addr)),
            LAMBDA w : Len(w) > 3 /\ w \notin commonAddressWordsToFilter)

\* a.filter(word => b.includes(word))
Intersections(a, b) == SelectSeq(a, LAMBDA w : w \in Elems(b))

\* Mutant: the name overlap ratio has to exceed 0.5.
strongNameMatchStrict(searchNameWords, foundNameWords) ==
  2 * Len(Intersections(searchNameWords, foundNameWords))
    > Max(OrOne(Len(searchNameWords)), OrOne(Len(foundNameWords)))

\* Mutant: the ratio is taken over the search words alone.
strongNameMatchBySearchLength(searchNameWords, foundNameWords) ==
  2 * Len(Intersections(searchNameWords, foundNameWords))
    >= OrOne(Len(searchNameWords))

\* nameOverlapRatio >= 0.5, the ratio being
\* intersections / max(searchWords.length || 1, foundWords.length || 1).
strongNameMatch(searchNameWords, foundNameWords) ==
  2 * Len(Intersections(searchNameWords, foundNameWords))
    >= Max(OrOne(Len(searchNameWords)), OrOne(Len(foundNameWords)))

\* At least one common address word, and intersections / min(...) >= 0.3.
basicAddrWordOverlap(searchAddrWords, foundAddrWords) ==
  LET n == Len(Intersections(searchAddrWords, foundAddrWords))
  IN  /\ n > 0
      /\ 10 * n >= 3 * Min(OrOne(Len(searchAddrWords)), OrOne(Len(foundAddrWords)))

\* reduce((a, b) => a.length > b.length ? a : b): the longest word, the last
\* one among equally long ones; '' for no words.
RECURSIVE ReduceLongest(_, _)
ReduceLongest(a, rest) ==
  IF rest = <<>> THEN a
  ELSE ReduceLongest(IF Len(a) > Len(Head(rest)) THEN a ELSE Head(rest), Tail(rest))

primarySearchStreetNamePart(searchAddrWords) ==
  IF Len(searchAddrWords) > 0
  THEN ReduceLongest(Head(searchAddrWords), Tail(searchAddrWords))
  ELSE <<>>

addressContainsSearchStreet(searchAddrWords, foundAddress) ==
  LET part == primarySearchStreetNamePart(searchAddrWords)
  IN  Len(part) > 0 /\ Includes(normalize(foundAddress), part)

\* Mutant: isValidMatch without its primary rule.
MatchDecisionNoPrimary(filter, matcher, searchName, searchAddress, searchPostalCode, foundName, foundAddress) ==
  IF ~Includes(foundAddress, searchPostalCode) THEN "false"
  ELSE
  LET searchNameWords == NameWords(searchName, filter)
      foundNameWords  == NameWords(foundName, filter)
      searchAddrWords == AddrWords(searchAddress)
      foundAddrWords  == AddrWords(foundAddress)
      strong   == strongNameMatch(searchNameWords, foundNameWords)
      overlap  == basicAddrWordOverlap(searchAddrWords, foundAddrWords)
      contains == addressContainsSearchStreet(searchAddrWords, foundAddress)
  IN  IF strong /\ (overlap \/ contains) THEN "true"
      ELSE IF \/ Len(Intersections(searchNameWords, foundNameWords)) > 0
              \/ overlap
              \/ contains
           THEN IF matcher # <<>> THEN "llm" ELSE "false"
           ELSE "false"

\* Mutant: isValidMatch without its first check (postal code in the found
\* address); the rules that follow are unchanged.
MatchDecisionNoPostalCheck(filter, matcher, searchName, searchAddress, searchPostalCode, foundName, foundAddress) ==
  LET searchNameWords == NameWords(searchName, filter)
      foundNameWords  == NameWords(foundName, filter)
      searchAddrWords == AddrWords(searchAddress)
      foundAddrWords  == AddrWords(foundAddress)
      strong   == strongNameMatch(searchNameWords, foundNameWords)
      overlap  == basicAddrWordOverlap(searchAddrWords, foundAddrWords)
      contains == addressContainsSearchStreet(searchAddrWords, foundAddress)
  IN  IF strong /\ Includes(foundAddress, searchPostalCode) THEN "true"
      ELSE IF strong /\ (overlap \/ contains) THEN "true"
      ELSE IF \/ Len(Intersections(searchNameWords, foundNameWords)) > 0
              \/ overlap
              \/ contains
           THEN IF matcher # <<>> THEN "llm" ELSE "false"
           ELSE "false"

\* isValidMatch up to its only await.  filter is the name-word filter in force,
\* matcher the value of llmMatcher (<<>> when falsy).  The outcome is TRUE or
\* FALSE when the function returns without the model, and "llm" when it calls
\* llmMatcher(prompt) and awaits its answer.
MatchDecision(filter, matcher, searchName, searchAddress, searchPostalCode, foundName, foundAddress) ==
  IF ~Includes(foundAddress, searchPostalCode) THEN "false"
  ELSE
    LET searchNameWords == NameWords(searchName, filter)
        foundNameWords  == NameWords(foundName, filter)
        searchAddrWords == AddrWords(searchAddress)
        foundAddrWords  == AddrWords(foundAddress)
        strong   == strongNameMatch(searchNameWords, foundNameWords)
        overlap  == basicAddrWordOverlap(searchAddrWords, foundAddrWords)
        contains == addressContainsSearchStreet(searchAddrWords, foundAddress)
    IN  IF strong /\ Includes(foundAddress, searchPostalCode) THEN "true"
        ELSE IF strong /\ (overlap \/ contains) THEN "true"
        ELSE IF \/ Len(Intersections(searchNameWords, foundNameWords)) > 0
                \/ overlap
                \/ contains
             THEN IF matcher # <<>> THEN "llm" ELSE "false"
             ELSE "false"

\* Mutant: the score threshold is not strict.
llmConfirmationAtLeast(label, score) ==
  Includes(ToUpperCase(label), <<"Y","E","S">>) /\ score >= 85

\* llmConfirmation: label.toUpperCase().includes('YES') && score > 0.85.
\* A score is counted in hundredths.
llmConfirmation(label, score) ==
  Includes(ToUpperCase(label), <<"Y","E","S">>) /\ score > 85

(***************************************************************************)
(* Inputs: request bodies, answers of the places service, model verdicts   *)
(***************************************************************************)
\* An optional value: <<>> when undefined or null, <<x>> when x.
None == <<>>
Some(x) == <<x>>

MuseeDuLouvre == <<"M","u","s","e+acute","e"," ","d","u"," ","L","o","u","v","r","e">>
HotelDeParis  == <<"H","o","t","e","l"," ","d","e"," ","P","a","r","i","s">>
LouvreMuseum  == <<"L","o","u","v","r","e"," ","M","u","s","e","u","m">>
LouvreHotel   == <<"L","o","u","v","r","e"," ","H","o","t","e","l"," ","P","a","r","i","s">>
RueDeRivoli   == <<"R","u","e"," ","d","e"," ","R","i","v","o","l","i">>
Rivoli75001   ==
  <<"R","u","e"," ","d","e"," ","R","i","v","o","l","i",","," ","7","5","0","0","1"," ","P","a","r","i","s">>
RivoliParis   ==
  <<"R","u","e"," ","d","e"," ","R","i","v","o","l","i",","," ","P","a","r","i","s">>
Postal75001   == <<"7","5","0","0","1">>

\* A missing or empty body field is <<>>: the handler tests truthiness only.
BodyNames       == {<<>>, MuseeDuLouvre, HotelDeParis}
BodyAddresses   == {<<>>, RueDeRivoli}
BodyPostalCodes == {<<>>, Postal75001}
Bodies ==
  [name : BodyNames, address : BodyAddresses, postalCode : BodyPostalCodes]

\* The most candidates one search answer carries.
MaxCands == 2

\* A candidate of findPlaceFromText; place_id "" when the field is missing.
PlaceIds == {"ChIJ1", "ChIJ2"}
Candidates == [place_id : PlaceIds \cup {""}]

RECURSIVE SeqsUpTo(_, _)
SeqsUpTo(S, n) ==
  IF n = 0 THEN {<<>>}
  ELSE LET shorter == SeqsUpTo(S, n - 1)
       IN  shorter \cup {Append(q, x) : q \in {r \in shorter : Len(r) = n - 1}, x \in S}

CandidateLists == SeqsUpTo(Candidates, MaxCands) \ {<<>>}

\* The optional fields of a details record that are passed through unread.
FullExtras ==
  [international_phone_number |-> Some("+33 1 40 20 53 17"),
   website                    |-> Some("http://www.louvre.fr/"),
   opening_hours              |-> Some([weekday_text |-> <<"lundi: 09:00-18:00">>]),
   rating                     |-> Some(47),
   user_ratings_total         |-> Some(268953),
   url                        |-> Some("https://maps.google.com/?cid=1"),
   geometry                   |-> Some([location |-> [lat |-> 48860611, lng |-> 2337644]])]

NoExtras ==
  [international_phone_number |-> None, website |-> None, opening_hours |-> None,
   rating |-> None, user_ratings_total |-> None, url |-> None, geometry |-> None]

\* The result of placeDetails; name and formatted_address are <<>> when the
\* field is missing (the code reads both through "|| ''").
DetailsRecord(name, addr, extras) ==
  [name |-> name, formatted_address |-> addr, extras |-> extras]

DetailsRecords ==
  { DetailsRecord(LouvreMuseum, Rivoli75001, FullExtras),
    DetailsRecord(LouvreHotel,  Rivoli75001, NoExtras),
    DetailsRecord(LouvreMuseum, RivoliParis, FullExtras),
    DetailsRecord(<<>>,         Rivoli75001, NoExtras),
    DetailsRecord(<<>>,         <<>>,        NoExtras) }

\* What the model answers: an array of {label, score}, or the object itself.
Verdict(label, score) == [label |-> label, score |-> score]
Verdicts ==
  { Verdict(<<"Y","E","S">>, 90), Verdict(<<"y","e","s">>, 90),
    Verdict(<<"Y","E","S">>, 85), Verdict(<<"N","O">>, 99) }

(***************************************************************************)
(* State                                                                   *)
(***************************************************************************)
VARIABLES
  revision,                \* the index module loaded: "index" or "part_002"
  GOOGLE_PLACES_API_KEY,   \* server.ts: read once from the environment
  llmMatcher,              \* module level: <<>> (undefined, null) or <<pipeline>>
  _commonNamesInitialized, \* part_002, module level
  _genericNameWords,       \* part_002, module level: "undefined" or the Set built
  http,                    \* the POST /api/business-details exchange
  inv,                     \* the invocations of getBusinessDetailsFromPlaces
  world,                   \* what the services answered so far, where that binds them
  others                   \* part_002 runs: further invocations awaiting pipeline()

vars ==
  <<revision, GOOGLE_PLACES_API_KEY, llmMatcher, _commonNamesInitialized,
    _genericNameWords, http, inv, world, others>>

(***************************************************************************)
(* getBusinessDetailsFromPlaces                                            *)
(*                                                                         *)
(* An invocation is a record: its arguments, its position (pc: the await   *)
(* it is suspended at), its locals, and a record of the calls it made:     *)
(* searches (the inputs given to findPlaceFromText), answers (the          *)
(* candidates each answered search carried, <<>> for none or for an        *)
(* error), kept (the query whose candidates were kept), lookups (the ids   *)
(* given to placeDetails), evals (the calls of isValidMatch) and threw     *)
(* (the calls that rejected).                                              *)
(***************************************************************************)
IdleInvocation ==
  [pc |-> "idle", businessName |-> <<>>, address |-> <<>>, postalCode |-> <<>>,
   qi |-> 0, candidates |-> <<>>, ci |-> 0, found |-> None, result |-> None,
   searches |-> <<>>, answers |-> <<>>, kept |-> 0, lookups |-> <<>>,
   evals |-> <<>>, threw |-> {}]

CommaSpace == <<",", " ">>

\* Mutant: the second and third query variations change places.
QueriesSwapped(v) ==
  << v.businessName \o CommaSpace \o v.address \o CommaSpace \o v.postalCode,
     v.businessName \o CommaSpace \o v.address,
     v.businessName \o CommaSpace \o v.postalCode,
     v.businessName >>

\* The query variations, in the order they are tried.
Queries(v) ==
  << v.businessName \o CommaSpace \o v.address \o CommaSpace \o v.postalCode,
     v.businessName \o CommaSpace \o v.postalCode,
     v.businessName \o CommaSpace \o v.address,
     v.businessName >>

\* The promise resolves with r (None is null).
Return(v, r) == [v EXCEPT !.pc = "done", !.result = r]

\* client.findPlaceFromText is called with the k-th query and awaited.
IssueQuery(v, k) ==
  [v EXCEPT !.pc = "search", !.qi = k, !.searches = Append(@, Queries(v)[k])]

\* The query loop goes on to the next query; after the last one candidates is
\* still empty and the function returns null.
NextQuery(v) ==
  IF v.qi < Len(Queries(v)) THEN IssueQuery(v, v.qi + 1) ELSE Return(v, None)

\* Mutant: the first failing search ends the invocation with null.
CatchQueryErrorGiveUp(v) == Return(v, None)

\* catch (queryError): log, continue to the next query.
CatchQueryError(v) == NextQuery(v)

\* Mutant: a candidate without place_id is looked up like any other.
EvaluateFromNoSkip(v, k) ==
  IF k > Len(v.candidates) THEN Return(v, None)
  ELSE [v EXCEPT !.pc = "details", !.ci = k,
                 !.lookups = Append(@, v.candidates[k].place_id)]

\* The candidate loop from candidate k on: a candidate without place_id is
\* skipped, client.placeDetails is called for the first one that has one and
\* awaited; past the last candidate the function returns null.
RECURSIVE EvaluateFrom(_, _)
EvaluateFrom(v, k) ==
  IF k > Len(v.candidates) THEN Return(v, None)
  ELSE IF v.candidates[k].place_id = "" THEN EvaluateFrom(v, k + 1)
  ELSE [v EXCEPT !.pc = "details", !.ci = k,
                 !.lookups = Append(@, v.candidates[k].place_id)]

\* Mutant: the first failing details lookup ends the search with null.
CatchDetailsErrorGiveUp(v) == Return(v, None)

\* Mutant: the error of placeDetails escapes the function.
CatchDetailsErrorRethrow(v) == [v EXCEPT !.pc = "rejected"]

\* catch (detailsError): log, continue to the next candidate.
CatchDetailsError(v) == EvaluateFrom(v, v.ci + 1)

\* The object returned for a valid match.
BusinessDetails(v, placeId, result) ==
  [nom      |-> IF result.name # <<>> THEN result.name ELSE v.businessName,
   adresse  |-> IF result.formatted_address # <<>>
                THEN result.formatted_address ELSE v.address,
   phone    |-> result.extras.international_phone_number,
   website  |-> result.extras.website,
   openingHours |-> IF result.extras.opening_hours # None
                    THEN Some(result.extras.opening_hours[1].weekday_text)
                    ELSE None,
   rating       |-> result.extras.rating,
   reviewCount  |-> result.extras.user_ratings_total,
   googleMapsUrl |-> result.extras.url,
   placeId  |-> placeId,
   geolocalisation |->
     IF result.extras.geometry # None
     THEN Some([lat |-> result.extras.geometry[1].location.lat,
                lon |-> result.extras.geometry[1].location.lng])
     ELSE None]

\* isValidMatch of index.ts, up to its await of the model.
isValidMatch(searchName, searchAddress, searchPostalCode, foundName, foundAddress) ==
  MatchDecision(commonNameWordsToFilter, llmMatcher,
                searchName, searchAddress, searchPostalCode, foundName, foundAddress)

\* The Set held by _genericNameWords.
GenericNameWords ==
  IF _genericNameWords = "commonWordsList" THEN commonWordsList ELSE {}

\* isValidMatch of part_002, up to its await of the model.
isValidMatchP2(searchName, searchAddress, searchPostalCode, foundName, foundAddress) ==
  MatchDecision(GenericNameWords, llmMatcher,
                searchName, searchAddress, searchPostalCode, foundName, foundAddress)

\* One call of isValidMatch: what it was given, whether llmMatcher was set
\* when it ran, whether it called the model, what the model answered and what
\* isValidMatch returned (pending while it awaits the model).
Evaluation(placeId, result, asked) ==
  [placeId |-> placeId, name |-> result.name, address |-> result.formatted_address,
   matcher |-> llmMatcher # None, asked |-> asked, answer |-> None,
   pending |-> asked, isValid |-> FALSE]

\* Mutant: when no candidate of the kept query is left, the next, broader
\* query is issued.
AfterMatchFallback(v, result, isValid) ==
  LET placeId == v.candidates[v.ci].place_id
      w == [v EXCEPT !.found = None,
                     !.evals[Len(v.evals)].pending = FALSE,
                     !.evals[Len(v.evals)].isValid = isValid]
  IN  IF isValid THEN Return(w, Some(BusinessDetails(w, placeId, result)))
      ELSE IF \A k \in (w.ci + 1)..Len(w.candidates) : w.candidates[k].place_id = ""
      THEN NextQuery(w)
      ELSE EvaluateFrom(w, w.ci + 1)

\* isValidMatch returned isValid: "if (isValid) return {...}", else on to the
\* next candidate.
AfterMatch(v, result, isValid) ==
  LET placeId == v.candidates[v.ci].place_id
      w == [v EXCEPT !.found = None,
                     !.evals[Len(v.evals)].pending = FALSE,
                     !.evals[Len(v.evals)].isValid = isValid]
  IN  IF isValid THEN Return(w, Some(BusinessDetails(w, placeId, result)))
      ELSE EvaluateFrom(w, w.ci + 1)

\* Mutant: the details of a candidate are returned without isValidMatch.
OnDetailsUnchecked(v, res, decision) ==
  IF res = None THEN EvaluateFrom(v, v.ci + 1)
  ELSE Return(v, Some(BusinessDetails(v, v.candidates[v.ci].place_id, res[1])))

\* detailsResponse.data.result arrived: no result skips the candidate,
\* otherwise isValidMatch runs up to its verdict or to its call of the model.
OnDetails(v, res, decision) ==
  IF res = None THEN EvaluateFrom(v, v.ci + 1)
  ELSE LET w == [v EXCEPT !.evals =
                   Append(@, Evaluation(v.candidates[v.ci].place_id, res[1],
                                        decision = "llm"))]
       IN  IF decision = "llm"
           THEN [w EXCEPT !.pc = "llm", !.found = res]
           ELSE AfterMatch(w, res[1], decision = "true")

(***************************************************************************)
(* The places service and the model, as the invocations see them           *)
(*                                                                         *)
(* Every call is answered freely, except in the runs that compare two     *)
(* invocations receiving the same answers (world.fixed): there a request   *)
(* that was answered once is answered the same way again, and world holds  *)
(* the <<request, answer>> pairs given so far.                             *)
(***************************************************************************)
Allowed(memo, key, answer) ==
  ~world.fixed \/ \A e \in memo : e[1] = key => e[2] = answer

Remember(memo, key, answer) ==
  IF world.fixed THEN memo \cup {<<key, answer>>} ELSE memo

SearchAnswer(threw, cands) == [threw |-> threw, candidates |-> cands]
DetailsAnswer(threw, res)  == [threw |-> threw, result |-> res]
LlmAnswer(threw, isArray, verdict) ==
  [threw |-> threw, isArray |-> isArray, verdict |-> verdict]

\* The prompt sent to the model is built from these five strings.
Prompt(v) ==
  <<v.businessName, v.address, v.postalCode,
    v.found[1].name, v.found[1].formatted_address>>

(***************************************************************************)
(* Steps of an invocation: each resumes it at the await it is suspended at *)
(* and runs it to its next await or to its return.                         *)
(***************************************************************************)
\* findPlaceFromText resolves; cands is response.data.candidates (<<>> when
\* missing or empty).
SearchReturns(i, cands) ==
  /\ inv[i].pc = "search"
  /\ LET v      == inv[i]
         key    == Queries(v)[v.qi]
         answer == SearchAnswer(FALSE, cands)
     IN  /\ Allowed(world.search, key, answer)
         /\ world' = [world EXCEPT !.search = Remember(@, key, answer)]
         /\ inv' = [inv EXCEPT ![i] =
                      LET w == [v EXCEPT !.answers = Append(@, cands)]
                      IN  IF Len(cands) > 0
                          THEN EvaluateFrom([w EXCEPT !.candidates = cands,
                                                      !.kept = v.qi], 1)
                          ELSE NextQuery(w)]
  /\ UNCHANGED <<revision, GOOGLE_PLACES_API_KEY, llmMatcher,
                 _commonNamesInitialized, _genericNameWords, http, others>>

\* findPlaceFromText rejects.
SearchThrows(i) ==
  /\ inv[i].pc = "search"
  /\ LET v      == inv[i]
         key    == Queries(v)[v.qi]
         answer == SearchAnswer(TRUE, <<>>)
     IN  /\ Allowed(world.search, key, answer)
         /\ world' = [world EXCEPT !.search = Remember(@, key, answer)]
         /\ inv' = [inv EXCEPT ![i] =
                      CatchQueryError([v EXCEPT !.answers = Append(@, <<>>),
                                                !.threw = @ \cup {"search"}])]
  /\ UNCHANGED <<revision, GOOGLE_PLACES_API_KEY, llmMatcher,
                 _commonNamesInitialized, _genericNameWords, http, others>>

\* placeDetails resolves; res is detailsResponse.data.result (None when
\* missing).
DetailsReturns(i, res) ==
  /\ inv[i].pc = "details"
  /\ LET v        == inv[i]
         key      == v.candidates[v.ci].place_id
         answer   == DetailsAnswer(FALSE, res)
         decision ==
           IF res = None THEN "false"
           ELSE IF revision = "index"
                THEN isValidMatch(v.businessName, v.address, v.postalCode,
                                  res[1].name, res[1].formatted_address)
                ELSE isValidMatchP2(v.businessName, v.address, v.postalCode,
                                    res[1].name, res[1].formatted_address)
     IN  /\ Allowed(world.details, key, answer)
         /\ world' = [world EXCEPT !.details = Remember(@, key, answer)]
         /\ inv' = [inv EXCEPT ![i] = OnDetails(v, res, decision)]
  /\ UNCHANGED <<revision, GOOGLE_PLACES_API_KEY, llmMatcher,
                 _commonNamesInitialized, _genericNameWords, http, others>>

\* placeDetails rejects.
DetailsThrows(i) ==
  /\ inv[i].pc = "details"
  /\ LET v      == inv[i]
         key    == v.candidates[v.ci].place_id
         answer == DetailsAnswer(TRUE, None)
     IN  /\ Allowed(world.details, key, answer)
         /\ world' = [world EXCEPT !.details = Remember(@, key, answer)]
         /\ inv' = [inv EXCEPT ![i] =
                      CatchDetailsError([v EXCEPT !.threw = @ \cup {"details"}])]
  /\ UNCHANGED <<revision, GOOGLE_PLACES_API_KEY, llmMatcher,
                 _commonNamesInitialized, _genericNameWords, http, others>>

\* llmMatcher(prompt) resolves with [verdict] or with verdict itself;
\* isValidMatch returns llmConfirmation.
LlmReturns(i, isArray, verdict) ==
  /\ inv[i].pc = "llm"
  /\ LET v      == inv[i]
         answer == LlmAnswer(FALSE, isArray, verdict)
     IN  /\ Allowed(world.verdict, Prompt(v), answer)
         /\ world' = [world EXCEPT !.verdict = Remember(@, Prompt(v), answer)]
         /\ inv' = [inv EXCEPT ![i] =
                      AfterMatch([v EXCEPT !.evals[Len(v.evals)].answer = Some(answer)],
                                 v.found[1],
                                 llmConfirmation(verdict.label, verdict.score))]
  /\ UNCHANGED <<revision, GOOGLE_PLACES_API_KEY, llmMatcher,
                 _commonNamesInitialized, _genericNameWords, http, others>>

\* llmMatcher(prompt) rejects; isValidMatch catches and returns false.
LlmThrows(i) ==
  /\ inv[i].pc = "llm"
  /\ LET v      == inv[i]
         answer == LlmAnswer(TRUE, TRUE, Verdict(<<>>, 0))
     IN  /\ Allowed(world.verdict, Prompt(v), answer)
         /\ world' = [world EXCEPT !.verdict = Remember(@, Prompt(v), answer)]
         /\ inv' = [inv EXCEPT ![i] =
                      AfterMatch([v EXCEPT !.evals[Len(v.evals)].answer = Some(answer),
                                           !.threw = @ \cup {"llm"}],
                                 v.found[1], FALSE)]
  /\ UNCHANGED <<revision, GOOGLE_PLACES_API_KEY, llmMatcher,
                 _commonNamesInitialized, _genericNameWords, http, others>>

(***************************************************************************)
(* server.ts: POST /api/business-details                                   *)
(***************************************************************************)
\* getBusinessDetailsFromPlaces of index.ts is called: it runs to its first
\* await, the first findPlaceFromText.
CallIndex(businessName, address, postalCode) ==
  IssueQuery([IdleInvocation EXCEPT !.businessName = businessName,
                                    !.address = address,
                                    !.postalCode = postalCode], 1)

\* The keys of the documented BusinessDetailsResponse schema.
BusinessDetailsResponseKeys ==
  {"name", "address", "phone", "website", "openingHours", "rating", "reviewCount",
   "googleMapsUrl", "placeId", "latitude", "longitude"}

Response(status, json) == [state |-> "sent", status |-> status, json |-> Some(json)]

\* res.json(details): the JSON text carries the keys whose value is defined.
JsonBody(d) ==
  LET always  == {"nom", "adresse", "placeId"}
      defined == {k \in DOMAIN d : k \in always \/ d[k] # None}
  IN  [k \in defined |-> IF k \in always THEN d[k] ELSE d[k][1]]

\* Mutant: the API key is checked before the parameters.
PostBusinessDetailsKeyFirst(body) ==
  /\ http.state \in {"idle", "sent"}
  /\ IF GOOGLE_PLACES_API_KEY = <<>>
     THEN /\ http' = Response(500,
                 [error |-> "Server configuration error: Google API Key missing."])
                 @@ [body |-> body]
          /\ inv' = [inv EXCEPT ![1] = IdleInvocation]
     ELSE IF body.name = <<>> \/ body.address = <<>> \/ body.postalCode = <<>>
     THEN /\ http' = Response(400,
                 [error |-> "Missing required parameters: name, address, or postalCode."])
                 @@ [body |-> body]
          /\ inv' = [inv EXCEPT ![1] = IdleInvocation]
     ELSE /\ http' = [state |-> "pending", status |-> 0, json |-> None, body |-> body]
          /\ inv' = [inv EXCEPT ![1] = CallIndex(body.name, body.address, body.postalCode)]
  /\ UNCHANGED <<revision, GOOGLE_PLACES_API_KEY, llmMatcher,
                 _commonNamesInitialized, _genericNameWords, world, others>>

\* Mutant: the API key is not checked.
PostBusinessDetailsNoKeyCheck(body) ==
  /\ http.state \in {"idle", "sent"}
  /\ IF body.name = <<>> \/ body.address = <<>> \/ body.postalCode = <<>>
     THEN /\ http' = Response(400,
                 [error |-> "Missing required parameters: name, address, or postalCode."])
                 @@ [body |-> body]
          /\ inv' = [inv EXCEPT ![1] = IdleInvocation]
     ELSE /\ http' = [state |-> "pending", status |-> 0, json |-> None, body |-> body]
          /\ inv' = [inv EXCEPT ![1] = CallIndex(body.name, body.address, body.postalCode)]
  /\ UNCHANGED <<revision, GOOGLE_PLACES_API_KEY, llmMatcher,
                 _commonNamesInitialized, _genericNameWords, world, others>>

\* The handler, from the request to its first response or to its await.
PostBusinessDetails(body) ==
  /\ http.state \in {"idle", "sent"}
  /\ IF body.name = <<>> \/ body.address = <<>> \/ body.postalCode = <<>>
     THEN /\ http' = Response(400,
                 [error |-> "Missing required parameters: name, address, or postalCode."])
                 @@ [body |-> body]
          /\ inv' = [inv EXCEPT ![1] = IdleInvocation]
     ELSE IF GOOGLE_PLACES_API_KEY = <<>>
     THEN /\ http' = Response(500,
                 [error |-> "Server configuration error: Google API Key missing."])
                 @@ [body |-> body]
          /\ inv' = [inv EXCEPT ![1] = IdleInvocation]
     ELSE /\ http' = [state |-> "pending", status |-> 0, json |-> None, body |-> body]
          /\ inv' = [inv EXCEPT ![1] = CallIndex(body.name, body.address, body.postalCode)]
  /\ UNCHANGED <<revision, GOOGLE_PLACES_API_KEY, llmMatcher,
                 _commonNamesInitialized, _genericNameWords, world, others>>

\* Mutant: "not found" is answered with status 200.
HandlerOutcomeAlways200(v) ==
  IF v.pc = "rejected"
  THEN Response(500, [error |-> "Internal server error."])
  ELSE IF v.result # None
  THEN Response(200, JsonBody(v.result[1]))
  ELSE Response(200,
         [error |-> "Business details not found for the provided information."])

\* What the handler sends once the promise of getBusinessDetailsFromPlaces
\* has settled: the details, 404 for null, 500 in its catch.
HandlerOutcome(v) ==
  IF v.pc = "rejected"
  THEN Response(500, [error |-> "Internal server error."])
  ELSE IF v.result # None
  THEN Response(200, JsonBody(v.result[1]))
  ELSE Response(404,
         [error |-> "Business details not found for the provided information."])

\* The handler resumes when the promise of getBusinessDetailsFromPlaces
\* settles.
SendResult ==
  /\ http.state = "pending"
  /\ inv[1].pc \in {"done", "rejected"}
  /\ http' = HandlerOutcome(inv[1]) @@ [body |-> http.body]
  /\ UNCHANGED <<revision, GOOGLE_PLACES_API_KEY, llmMatcher,
                 _commonNamesInitialized, _genericNameWords, inv, world, others>>

NoBody == [name |-> <<>>, address |-> <<>>, postalCode |-> <<>>]

Init ==
  /\ revision = "index"
  /\ GOOGLE_PLACES_API_KEY \in {<<>>, <<"k","e","y">>}
  /\ llmMatcher = None
  /\ _commonNamesInitialized = FALSE
  /\ _genericNameWords = "undefined"
  /\ http = [state |-> "idle", status |-> 0, json |-> None, body |-> NoBody]
  /\ inv = [i \in {1} |-> IdleInvocation]
  /\ world = [fixed |-> FALSE, search |-> {}, details |-> {}, verdict |-> {}]
  /\ others = 0

Next ==
  \/ \E body \in Bodies : PostBusinessDetails(body)
  \/ \E cands \in CandidateLists \cup {<<>>} : SearchReturns(1, cands)
  \/ SearchThrows(1)
  \/ \E r \in DetailsRecords : DetailsReturns(1, Some(r))
  \/ DetailsReturns(1, None)
  \/ DetailsThrows(1)
  \/ SendResult

Spec == Init /\ [][Next]_vars

(***************************************************************************)
(* part_002: the invocations share llmMatcher and the generic-word filter  *)
(*                                                                         *)
(* One invocation (SpecP2) or two (SpecPair) are followed step by step.    *)
(* Every further invocation is followed only as far as it touches the      *)
(* module-level state: its call of initializeCommonNameFilters and its     *)
(* initializeLLM (others counts those whose pipeline() is pending).        *)
(***************************************************************************)
\* The most further invocations whose pipeline() is pending at one time.
MaxOthers == 1

\* Mutant: a call after the first one leaves an empty Set behind.
initializeCommonNameFiltersReset ==
  IF _commonNamesInitialized
  THEN <<_commonNamesInitialized, "empty">>
  ELSE <<TRUE, "commonWordsList">>

\* initializeCommonNameFilters: the values it leaves in
\* <<_commonNamesInitialized, _genericNameWords>>.  It never awaits.
initializeCommonNameFilters ==
  IF _commonNamesInitialized
  THEN <<_commonNamesInitialized, _genericNameWords>>
  ELSE <<TRUE, "commonWordsList">>

\* getBusinessDetailsFromPlaces of part_002 is called: it runs
\* initializeCommonNameFilters and suspends at "await" on its promise.  The
\* two invocations followed are given the same arguments.
CallP2(i, businessName, address, postalCode) ==
  /\ inv[i].pc = "idle"
  /\ \A j \in DOMAIN inv :
       /\ j < i => inv[j].pc # "idle"
       /\ inv[j].pc # "idle" => /\ inv[j].businessName = businessName
                                /\ inv[j].address = address
                                /\ inv[j].postalCode = postalCode
  /\ _commonNamesInitialized' = initializeCommonNameFilters[1]
  /\ _genericNameWords' = initializeCommonNameFilters[2]
  /\ inv' = [inv EXCEPT ![i] = [IdleInvocation EXCEPT !.pc = "filters",
                                                      !.businessName = businessName,
                                                      !.address = address,
                                                      !.postalCode = postalCode]]
  /\ UNCHANGED <<revision, GOOGLE_PLACES_API_KEY, llmMatcher, http, world, others>>

\* initializeLLM is called: with llmMatcher set it returns at once and the
\* first query is issued; otherwise it calls pipeline() and awaits it.
InitializeLLM(i) ==
  /\ inv[i].pc = "filters"
  /\ inv' = [inv EXCEPT ![i] =
               IF llmMatcher = None
               THEN [inv[i] EXCEPT !.pc = "pipeline"]
               ELSE IssueQuery(inv[i], 1)]
  /\ UNCHANGED <<revision, GOOGLE_PLACES_API_KEY, llmMatcher,
                 _commonNamesInitialized, _genericNameWords, http, world, others>>

\* pipeline() resolves: llmMatcher is assigned, the first query is issued.
PipelineResolves(i) ==
  /\ inv[i].pc = "pipeline"
  /\ llmMatcher' = Some("Xenova/distilbert-base-uncased")
  /\ inv' = [inv EXCEPT ![i] = IssueQuery(inv[i], 1)]
  /\ UNCHANGED <<revision, GOOGLE_PLACES_API_KEY,
                 _commonNamesInitialized, _genericNameWords, http, world, others>>

\* pipeline() rejects: the catch sets llmMatcher to null, the first query is
\* issued.
PipelineRejects(i) ==
  /\ inv[i].pc = "pipeline"
  /\ llmMatcher' = None
  /\ inv' = [inv EXCEPT ![i] = IssueQuery(inv[i], 1)]
  /\ UNCHANGED <<revision, GOOGLE_PLACES_API_KEY,
                 _commonNamesInitialized, _genericNameWords, http, world, others>>

\* A further invocation is called and reaches initializeLLM with llmMatcher
\* unset: its pipeline() is pending.  (With llmMatcher set it leaves the
\* module-level state as it is.)
OtherCalled ==
  /\ others < MaxOthers
  /\ llmMatcher = None
  /\ _commonNamesInitialized' = initializeCommonNameFilters[1]
  /\ _genericNameWords' = initializeCommonNameFilters[2]
  /\ others' = others + 1
  /\ UNCHANGED <<revision, GOOGLE_PLACES_API_KEY, llmMatcher, http, inv, world>>

\* The pipeline() of a further invocation resolves.
OtherPipelineResolves ==
  /\ others > 0
  /\ llmMatcher' = Some("Xenova/distilbert-base-uncased")
  /\ others' = others - 1
  /\ UNCHANGED <<revision, GOOGLE_PLACES_API_KEY,
                 _commonNamesInitialized, _genericNameWords, http, inv, world>>

\* The pipeline() of a further invocation rejects.
OtherPipelineRejects ==
  /\ others > 0
  /\ llmMatcher' = None
  /\ others' = others - 1
  /\ UNCHANGED <<revision, GOOGLE_PLACES_API_KEY,
                 _commonNamesInitialized, _genericNameWords, http, inv, world>>

\* The arguments and the answers of the part_002 runs.
ArgNames == {MuseeDuLouvre, HotelDeParis}

Paris75001 == <<"7","5","0","0","1"," ","P","a","r","i","s">>

CandidateListsP2 ==
  { <<[place_id |-> "ChIJ1"]>>, <<[place_id |-> "ChIJ1"], [place_id |-> "ChIJ2"]>> }

DetailsRecordsP2 ==
  { DetailsRecord(LouvreMuseum, Rivoli75001, FullExtras),
    DetailsRecord(LouvreHotel,  Paris75001,  NoExtras),
    DetailsRecord(<<>>,         Rivoli75001, NoExtras),
    DetailsRecord(<<>>,         Paris75001,  NoExtras),
    DetailsRecord(LouvreMuseum, RivoliParis, FullExtras) }

\* What the model is seen to answer: <<isArray, verdict>>.
LlmAnswers ==
  { <<TRUE,  Verdict(<<"Y","E","S">>, 90)>>, <<FALSE, Verdict(<<"y","e","s">>, 90)>>,
    <<TRUE,  Verdict(<<"Y","E","S">>, 85)>>, <<TRUE,  Verdict(<<"N","O">>, 99)>> }

InitP2 ==
  /\ revision = "part_002"
  /\ GOOGLE_PLACES_API_KEY = <<>>
  /\ llmMatcher = None
  /\ _commonNamesInitialized = FALSE
  /\ _genericNameWords = "undefined"
  /\ http = [state |-> "idle", status |-> 0, json |-> None, body |-> NoBody]
  /\ inv = [i \in {1} |-> IdleInvocation]
  /\ world = [fixed |-> FALSE, search |-> {}, details |-> {}, verdict |-> {}]
  /\ others = 0

NextP2 ==
  \/ \E n \in ArgNames : CallP2(1, n, RueDeRivoli, Postal75001)
  \/ InitializeLLM(1)
  \/ PipelineResolves(1)
  \/ PipelineRejects(1)
  \/ OtherCalled
  \/ OtherPipelineResolves
  \/ OtherPipelineRejects
  \/ \E cands \in CandidateListsP2 \cup {<<>>} : SearchReturns(1, cands)
  \/ SearchThrows(1)
  \/ \E r \in DetailsRecordsP2 : DetailsReturns(1, Some(r))
  \/ DetailsReturns(1, None)
  \/ DetailsThrows(1)
  \/ \E a \in LlmAnswers : LlmReturns(1, a[1], a[2])
  \/ LlmThrows(1)

SpecP2 == InitP2 /\ [][NextP2]_vars

\* The runs that compare two invocations: both are given the same arguments
\* and the services answer the same request the same way.
DetailsRecordsPair ==
  { DetailsRecord(LouvreHotel,  Rivoli75001, FullExtras),
    DetailsRecord(<<>>,         Rivoli75001, NoExtras) }

LlmAnswersPair ==
  { <<TRUE, Verdict(<<"Y","E","S">>, 90)>>, <<TRUE, Verdict(<<"N","O">>, 99)>> }

InitPair ==
  /\ revision = "part_002"
  /\ GOOGLE_PLACES_API_KEY = <<>>
  /\ llmMatcher = None
  /\ _commonNamesInitialized = FALSE
  /\ _genericNameWords = "undefined"
  /\ http = [state |-> "idle", status |-> 0, json |-> None, body |-> NoBody]
  /\ inv = [i \in {1, 2} |-> IdleInvocation]
  /\ world = [fixed |-> TRUE, search |-> {}, details |-> {}, verdict |-> {}]
  /\ others = 0

NextPair ==
  \/ \E i \in DOMAIN inv, n \in ArgNames : CallP2(i, n, RueDeRivoli, Postal75001)
  \/ \E i \in DOMAIN inv : InitializeLLM(i)
  \/ \E i \in DOMAIN inv : PipelineResolves(i)
  \/ \E i \in DOMAIN inv : PipelineRejects(i)
  \/ OtherCalled
  \/ OtherPipelineResolves
  \/ OtherPipelineRejects
  \/ \E i \in DOMAIN inv, cands \in CandidateListsP2 : SearchReturns(i, cands)
  \/ \E i \in DOMAIN inv : SearchThrows(i)
  \/ \E i \in DOMAIN inv, r \in DetailsRecordsPair : DetailsReturns(i, Some(r))
  \/ \E i \in DOMAIN inv : DetailsThrows(i)
  \/ \E i \in DOMAIN inv, a \in LlmAnswersPair : LlmReturns(i, a[1], a[2])
  \/ \E i \in DOMAIN inv : LlmThrows(i)

SpecPair == InitPair /\ [][NextPair]_vars


(***************************************************************************)
(* src/getBusinessDetailsFromPlaces.ts: the first variant                  *)
(*                                                                         *)
(* One search, the first candidate, its details; one try/catch around the  *)
(* whole body.                                                             *)
(***************************************************************************)
\* const query = `${businessName}, ${address}, ${postalCode}`
FirstQuery(businessName, address, postalCode) ==
  businessName \o CommaSpace \o address \o CommaSpace \o postalCode

\* The function is called and runs to its await of findPlaceFromText.
CallFirst(businessName, address, postalCode) ==
  /\ inv[1].pc = "idle"
  /\ inv' = [inv EXCEPT ![1] =
               [IdleInvocation EXCEPT
                  !.pc = "search", !.qi = 1,
                  !.businessName = businessName,
                  !.address = address,
                  !.postalCode = postalCode,
                  !.searches = <<FirstQuery(businessName, address, postalCode)>>]]
  /\ UNCHANGED <<revision, GOOGLE_PLACES_API_KEY, llmMatcher,
                 _commonNamesInitialized, _genericNameWords, http, world, others>>

\* The businessDetails object of the first variant.
FirstBusinessDetails(v, placeId, result) ==
  [name     |-> IF result.name # <<>> THEN result.name ELSE v.businessName,
   address  |-> IF result.formatted_address # <<>>
                THEN result.formatted_address ELSE v.address,
   phone    |-> result.extras.international_phone_number,
   website  |-> result.extras.website,
   openingHours |-> IF result.extras.opening_hours # None
                    THEN Some(result.extras.opening_hours[1].weekday_text)
                    ELSE None,
   rating       |-> result.extras.rating,
   reviewCount  |-> result.extras.user_ratings_total,
   googleMapsUrl |-> result.extras.url,
   placeId  |-> placeId]

\* Mutant: the first candidate that has a place_id is taken.
RECURSIVE FirstOnCandidatesSkipping(_, _)
FirstOnCandidatesSkipping(v, cands) ==
  IF Len(cands) = 0 THEN Return(v, None)
  ELSE IF cands[1].place_id = "" THEN FirstOnCandidatesSkipping(v, Tail(cands))
  ELSE [v EXCEPT !.pc = "details", !.ci = 1,
                 !.lookups = Append(@, cands[1].place_id)]

\* After the search: no candidates returns null, a first candidate without
\* place_id returns null, otherwise placeDetails is called for candidates[0].
FirstOnCandidates(v, cands) ==
  IF Len(cands) = 0 THEN Return(v, None)
  ELSE IF cands[1].place_id = "" THEN Return(v, None)
  ELSE [v EXCEPT !.pc = "details", !.ci = 1,
                 !.lookups = Append(@, cands[1].place_id)]

\* After the details lookup: "if (result) return businessDetails else null".
FirstOnResult(v, res) ==
  IF res # None
  THEN Return(v, Some(FirstBusinessDetails(v, v.candidates[1].place_id, res[1])))
  ELSE Return(v, None)

\* catch (error): log, return null.
FirstCatch(v) == Return(v, None)

\* findPlaceFromText resolves.
FirstSearchReturns(cands) ==
  /\ revision = "first"
  /\ inv[1].pc = "search"
  /\ inv' = [inv EXCEPT ![1] =
               FirstOnCandidates([inv[1] EXCEPT !.answers = Append(@, cands),
                                                !.candidates = cands], cands)]
  /\ UNCHANGED <<revision, GOOGLE_PLACES_API_KEY, llmMatcher,
                 _commonNamesInitialized, _genericNameWords, http, world, others>>

\* findPlaceFromText rejects.
FirstSearchThrows ==
  /\ revision = "first"
  /\ inv[1].pc = "search"
  /\ inv' = [inv EXCEPT ![1] = FirstCatch([inv[1] EXCEPT !.threw = @ \cup {"search"}])]
  /\ UNCHANGED <<revision, GOOGLE_PLACES_API_KEY, llmMatcher,
                 _commonNamesInitialized, _genericNameWords, http, world, others>>

\* placeDetails resolves; res is placeDetailsResponse.data.result.
FirstDetailsReturns(res) ==
  /\ revision = "first"
  /\ inv[1].pc = "details"
  /\ inv' = [inv EXCEPT ![1] = FirstOnResult([inv[1] EXCEPT !.found = res], res)]
  /\ UNCHANGED <<revision, GOOGLE_PLACES_API_KEY, llmMatcher,
                 _commonNamesInitialized, _genericNameWords, http, world, others>>

\* placeDetails rejects.
FirstDetailsThrows ==
  /\ revision = "first"
  /\ inv[1].pc = "details"
  /\ inv' = [inv EXCEPT ![1] = FirstCatch([inv[1] EXCEPT !.threw = @ \cup {"details"}])]
  /\ UNCHANGED <<revision, GOOGLE_PLACES_API_KEY, llmMatcher,
                 _commonNamesInitialized, _genericNameWords, http, world, others>>

InitFirst ==
  /\ revision = "first"
  /\ GOOGLE_PLACES_API_KEY = <<>>
  /\ llmMatcher = None
  /\ _commonNamesInitialized = FALSE
  /\ _genericNameWords = "undefined"
  /\ http = [state |-> "idle", status |-> 0, json |-> None, body |-> NoBody]
  /\ inv = [i \in {1} |-> IdleInvocation]
  /\ world = [fixed |-> FALSE, search |-> {}, details |-> {}, verdict |-> {}]
  /\ others = 0

NextFirst ==
  \/ \E n \in ArgNames : CallFirst(n, RueDeRivoli, Postal75001)
  \/ \E cands \in CandidateLists \cup {<<>>} : FirstSearchReturns(cands)
  \/ FirstSearchThrows
  \/ \E r \in DetailsRecords : FirstDetailsReturns(Some(r))
  \/ FirstDetailsReturns(None)
  \/ FirstDetailsThrows

SpecFirst == InitFirst /\ [][NextFirst]_vars

(***************************************************************************)
(* isValidMatch of index.ts as a function of its five arguments            *)
(*                                                                         *)
(* The arguments searched for are drawn at the start, isValidMatch is then *)
(* called with found names and addresses; the last call is kept in evals,  *)
(* the values of its local constants in found.                             *)
(***************************************************************************)
AvenueFoch  == <<"A","v","e","n","u","e"," ","F","o","c","h">>
ParisParis  == <<"P","a","r","i","s"," ","P","a","r","i","s">>
Postal75008 == <<"7","5","0","0","8">>

MatchSearchNames     == {MuseeDuLouvre, HotelDeParis, LouvreMuseum, ParisParis, <<>>}
MatchSearchAddresses == {RueDeRivoli, AvenueFoch, <<>>}
MatchPostalCodes     == {Postal75001, Postal75008}
MatchFoundNames      == {LouvreMuseum, LouvreHotel, HotelDeParis, MuseeDuLouvre, <<>>}
MatchFoundAddresses  == {Rivoli75001, RivoliParis, Paris75001, <<>>}

\* The local constants of one isValidMatch call.
MatchLocals(filter, searchName, searchAddress, foundName, foundAddress) ==
  LET searchNameWords == NameWords(searchName, filter)
      foundNameWords  == NameWords(foundName, filter)
      searchAddrWords == AddrWords(searchAddress)
      foundAddrWords  == AddrWords(foundAddress)
  IN  [searchNameWords |-> searchNameWords,
       foundNameWords  |-> foundNameWords,
       nameWordIntersections |-> Intersections(searchNameWords, foundNameWords),
       strongNameMatch |-> strongNameMatch(searchNameWords, foundNameWords),
       basicAddrWordOverlap |-> basicAddrWordOverlap(searchAddrWords, foundAddrWords),
       primarySearchStreetNamePart |-> primarySearchStreetNamePart(searchAddrWords),
       addressContainsSearchStreet |->
         addressContainsSearchStreet(searchAddrWords, foundAddress)]

\* isValidMatch is called with the arguments searched for and a found name
\* and address, and returns.
IsValidMatchCalled(foundName, foundAddress) ==
  /\ revision = "index"
  /\ inv[1].pc = "idle"
  /\ LET v        == inv[1]
         decision == isValidMatch(v.businessName, v.address, v.postalCode,
                                  foundName, foundAddress)
         e        == Evaluation("", DetailsRecord(foundName, foundAddress, NoExtras),
                                decision = "llm")
     IN  inv' = [inv EXCEPT
                   ![1].evals = <<[e EXCEPT !.isValid = (decision = "true")]>>,
                   ![1].found = Some(MatchLocals(commonNameWordsToFilter,
                                                 v.businessName, v.address,
                                                 foundName, foundAddress))]
  /\ UNCHANGED <<revision, GOOGLE_PLACES_API_KEY, llmMatcher,
                 _commonNamesInitialized, _genericNameWords, http, world, others>>

InitMatch ==
  /\ revision = "index"
  /\ GOOGLE_PLACES_API_KEY = <<>>
  /\ llmMatcher = None
  /\ _commonNamesInitialized = FALSE
  /\ _genericNameWords = "undefined"
  /\ http = [state |-> "idle", status |-> 0, json |-> None, body |-> NoBody]
  /\ inv \in { [i \in {1} |-> [IdleInvocation EXCEPT !.businessName = n,
                                                     !.address = a,
                                                     !.postalCode = p]] :
               n \in MatchSearchNames, a \in MatchSearchAddresses,
               p \in MatchPostalCodes }
  /\ world = [fixed |-> FALSE, search |-> {}, details |-> {}, verdict |-> {}]
  /\ others = 0

NextMatch ==
  \E foundName \in MatchFoundNames, foundAddress \in MatchFoundAddresses :
    IsValidMatchCalled(foundName, foundAddress)

SpecMatch == InitMatch /\ [][NextMatch]_vars

(***************************************************************************)
(* part_002: the generic-word filter applied by isValidMatch               *)
(*                                                                         *)
(* The name searched for is an entry of the hardcoded list; the filter is  *)
(* initialised as getBusinessDetailsFromPlaces does before any search, and *)
(* isValidMatch is then called with found names.                           *)
(***************************************************************************)
CafeDeParis == <<"C","a","f","e+acute"," ","d","e"," ","P","a","r","i","s">>

FilterFoundNames == {CafeDeParis, MuseeDuLouvre}

\* await initializeCommonNameFilters()
FiltersInitialized ==
  /\ revision = "part_002"
  /\ ~_commonNamesInitialized
  /\ _commonNamesInitialized' = initializeCommonNameFilters[1]
  /\ _genericNameWords' = initializeCommonNameFilters[2]
  /\ UNCHANGED <<revision, GOOGLE_PLACES_API_KEY, llmMatcher, http, inv, world, others>>

\* isValidMatch of part_002 is called with the arguments searched for and a
\* found name and address, and returns.
IsValidMatchCalledP2(foundName, foundAddress) ==
  /\ revision = "part_002"
  /\ _commonNamesInitialized
  /\ inv[1].pc = "idle"
  /\ LET v        == inv[1]
         decision == isValidMatchP2(v.businessName, v.address, v.postalCode,
                                    foundName, foundAddress)
         e        == Evaluation("", DetailsRecord(foundName, foundAddress, NoExtras),
                                decision = "llm")
     IN  inv' = [inv EXCEPT
                   ![1].evals = <<[e EXCEPT !.isValid = (decision = "true")]>>,
                   ![1].found = Some(MatchLocals(GenericNameWords,
                                                 v.businessName, v.address,
                                                 foundName, foundAddress))]
  /\ UNCHANGED <<revision, GOOGLE_PLACES_API_KEY, llmMatcher,
                 _commonNamesInitialized, _genericNameWords, http, world, others>>

InitFilter ==
  /\ revision = "part_002"
  /\ GOOGLE_PLACES_API_KEY = <<>>
  /\ llmMatcher = None
  /\ _commonNamesInitialized = FALSE
  /\ _genericNameWords = "undefined"
  /\ http = [state |-> "idle", status |-> 0, json |-> None, body |-> NoBody]
  /\ inv \in { [i \in {1} |-> [IdleInvocation EXCEPT !.businessName = w,
                                                     !.address = RueDeRivoli,
                                                     !.postalCode = Postal75001]] :
               w \in commonWordsList }
  /\ world = [fixed |-> FALSE, search |-> {}, details |-> {}, verdict |-> {}]
  /\ others = 0

NextFilter ==
  \/ FiltersInitialized
  \/ \E foundName \in FilterFoundNames : IsValidMatchCalledP2(foundName, Rivoli75001)

SpecFilter == InitFilter /\ [][NextFilter]_vars

(***************************************************************************)
(* Properties of getBusinessDetailsFromPlaces (index.ts)                   *)
(***************************************************************************)
\* The candidate at position k of a find-place answer carries place id p.
HasCandidate(cands, p) == \E k \in 1..Len(cands) : cands[k].place_id = p

\* C1: a non-null result carries the place id of a candidate of the one query
\* that was kept, the last details lookup was made for exactly that place id,
\* and isValidMatch ran on the name and address of that details record and
\* returned true; no details are returned without that check.
C1_ResultWasChecked ==
  \A i \in DOMAIN inv :
    LET v == inv[i] IN
    v.result # None =>
      /\ v.kept \in 1..4
      /\ HasCandidate(v.answers[v.kept], v.result[1].placeId)
      /\ v.lookups # <<>>
      /\ v.lookups[Len(v.lookups)] = v.result[1].placeId
      /\ v.evals # <<>>
      /\ LET e == v.evals[Len(v.evals)] IN
           /\ e.placeId = v.result[1].placeId
           /\ e.isValid
           /\ ~e.pending
           /\ ~e.asked =>
                MatchDecision(IF revision = "index" THEN commonNameWordsToFilter
                                                    ELSE GenericNameWords,
                              None, v.businessName, v.address, v.postalCode,
                              e.name, e.address) = "true"

\* A result was returned for the second candidate after the first one failed
\* the check.
C1_Witness ==
  /\ inv[1].result # None
  /\ Len(inv[1].evals) = 2
  /\ ~inv[1].evals[1].isValid
  /\ inv[1].result[1].placeId = inv[1].candidates[2].place_id

\* C2: the promise settles by resolving, to a details object or to null, and
\* never rejects, whatever the service calls return or throw.
C2_NeverRejects ==
  \A i \in DOMAIN inv :
    /\ inv[i].pc # "rejected"
    /\ inv[i].pc = "done" =>
         \/ inv[i].result = None
         \/ /\ Len(inv[i].result) = 1
            /\ inv[i].result[1].placeId \in PlaceIds
    /\ ~(http.state = "sent" /\ http.status = 500
         /\ http.json[1].error = "Internal server error.")

\* The function resolved after both a search and a details lookup threw.
C2_Witness ==
  /\ inv[1].pc = "done"
  /\ {"search", "details"} \subseteq inv[1].threw

\* C3: the postal code check is mandatory: isValidMatch returns true only for
\* a found address that contains the postal code searched for, and the
\* adresse of every non-null result contains it.
C3_PostalCodeInAddress ==
  \A i \in DOMAIN inv :
    LET v == inv[i] IN
    /\ \A k \in 1..Len(v.evals) :
         v.evals[k].isValid => Includes(v.evals[k].address, v.postalCode)
    /\ v.result # None => Includes(v.result[1].adresse, v.postalCode)

\* A result was returned after a candidate whose address lacks the postal
\* code was turned down.
C3_Witness ==
  /\ inv[1].result # None
  /\ \E k \in 1..Len(inv[1].evals) :
       /\ ~Includes(inv[1].evals[k].address, inv[1].postalCode)
       /\ ~inv[1].evals[k].isValid

\* The four query texts of a call, written out.
ExpectedQueries(n, a, p) ==
  << n \o <<",", " ">> \o a \o <<",", " ">> \o p,
     n \o <<",", " ">> \o p,
     n \o <<",", " ">> \o a,
     n >>

\* C4: the searches are "name, address, postalCode", "name, postalCode",
\* "name, address", "name", in this order; a query is issued only after all
\* earlier ones returned no candidate or threw; the function stops at the
\* first query with candidates, issues at most four searches, and looks up
\* candidates of that single query only.
C4_QueryOrder ==
  \A i \in DOMAIN inv :
    LET v == inv[i]
        expected == ExpectedQueries(v.businessName, v.address, v.postalCode)
    IN  /\ Len(v.searches) <= 4
        /\ \A k \in 1..Len(v.searches) : v.searches[k] = expected[k]
        /\ \A k \in 1..Len(v.answers) : k < Len(v.searches) => v.answers[k] = <<>>
        /\ v.kept # 0 =>
             /\ v.kept = Len(v.searches)
             /\ v.answers[v.kept] # <<>>
             /\ v.candidates = v.answers[v.kept]
        /\ v.kept = 0 => v.lookups = <<>> /\ v.candidates = <<>>
        /\ \A k \in 1..Len(v.lookups) :
             v.kept # 0 /\ HasCandidate(v.answers[v.kept], v.lookups[k])

\* The third query was the first with candidates and one of them was looked
\* up.
C4_Witness ==
  /\ inv[1].kept = 3
  /\ Len(inv[1].searches) = 3
  /\ inv[1].lookups # <<>>

\* The place ids of the candidates that have one, in order.
IdsOf(cands) ==
  LET withId == SelectSeq(cands, LAMBDA c : c.place_id # "")
  IN  [k \in 1..Len(withId) |-> withId[k].place_id]

\* C12: the candidates are looked up in the order the search returned them,
\* each at most once and those without place_id never; the first one whose
\* details pass isValidMatch is returned and no candidate after it is looked
\* up; null is returned only after every candidate with a place_id was tried.
C12_FirstValidCandidate ==
  \A i \in DOMAIN inv :
    LET v == inv[i] IN
    /\ \E n \in 0..Len(v.candidates) :
         /\ v.lookups = IdsOf(SubSeq(v.candidates, 1, n))
         /\ n > 0 => v.candidates[n].place_id # ""
         /\ v.result # None => n > 0 /\ v.result[1].placeId = v.candidates[n].place_id
         /\ (v.pc = "done" /\ v.result = None) =>
              \A k \in (n + 1)..Len(v.candidates) : v.candidates[k].place_id = ""
    /\ \A k \in 1..Len(v.evals) :
         v.evals[k].isValid => (k = Len(v.evals) /\ v.result # None)
    /\ Len(v.evals) <= Len(v.lookups)

\* The first of two candidates was returned and the second, which has a
\* place_id, was not looked up.
C12_Witness ==
  /\ inv[1].result # None
  /\ Len(inv[1].candidates) = 2
  /\ inv[1].candidates[2].place_id # ""
  /\ Len(inv[1].lookups) = 1

\* The positions after the current candidate that carry a place_id.
LaterWithId(v) ==
  {k \in (v.ci + 1)..Len(v.candidates) : v.candidates[k].place_id # ""}

\* C13: a details lookup that throws or has no result does not end the
\* invocation: it goes on with the next candidate that has a place_id (null
\* only when none is left), and a candidate whose details then pass
\* isValidMatch is the one returned.
C13_FailedLookupContinues ==
  /\ [](\A i \in DOMAIN inv :
          (inv[i].evals # <<>> /\ inv[i].evals[Len(inv[i].evals)].isValid) =>
             /\ inv[i].pc = "done"
             /\ inv[i].result # None
             /\ inv[i].result[1].placeId = inv[i].evals[Len(inv[i].evals)].placeId)
  /\ [][(/\ inv[1].pc = "details"
         /\ inv'[1] # inv[1]
         /\ Len(inv'[1].evals) = Len(inv[1].evals))
        => IF LaterWithId(inv[1]) = {}
           THEN inv'[1].pc = "done" /\ inv'[1].result = None
           ELSE LET j == CHOOSE k \in LaterWithId(inv[1]) :
                           \A l \in LaterWithId(inv[1]) : k <= l
                IN  /\ inv'[1].pc = "details"
                    /\ inv'[1].lookups =
                         Append(inv[1].lookups, inv[1].candidates[j].place_id)]_vars

\* The lookup of the first candidate threw and the second candidate was
\* returned.
C13_Witness ==
  /\ inv[1].result # None
  /\ "details" \in inv[1].threw
  /\ Len(inv[1].lookups) = 2
  /\ inv[1].result[1].placeId = inv[1].candidates[2].place_id

\* What an invocation awaiting a search looks like once that search has
\* yielded nothing: the next query is awaited, or null is returned after the
\* fourth.
AfterFruitlessSearch(v) ==
  IF Len(v.searches) < 4
  THEN [v EXCEPT !.pc = "search",
                 !.qi = Len(v.searches) + 1,
                 !.answers = Append(@, <<>>),
                 !.searches =
                    Append(@, ExpectedQueries(v.businessName, v.address,
                                              v.postalCode)[Len(v.searches) + 1])]
  ELSE [v EXCEPT !.pc = "done", !.result = None, !.answers = Append(@, <<>>)]

\* C14: a search that throws does not end the invocation: it leaves the
\* invocation exactly where a search without candidates leaves it (the next
\* query is issued, null after the last), so the candidates of a later query
\* are evaluated as after an empty answer.
C14_FailedSearchContinues ==
  [][(/\ inv[1].pc = "search"
      /\ inv'[1] # inv[1]
      /\ inv'[1].answers = Append(inv[1].answers, <<>>))
     => [inv'[1] EXCEPT !.threw = inv[1].threw] = AfterFruitlessSearch(inv[1])]_vars

\* The first query threw, the second returned candidates and one of them was
\* returned.
C14_Witness ==
  /\ inv[1].result # None
  /\ "search" \in inv[1].threw
  /\ inv[1].kept = 2
  /\ inv[1].answers[1] = <<>>
  /\ "details" \notin inv[1].threw

\* C15: once a query has yielded candidates no further query is issued,
\* also when none of those candidates passes isValidMatch: the function then
\* returns null.
C15_NoFallbackAfterMismatch ==
  \A i \in DOMAIN inv :
    LET v == inv[i] IN
    v.kept # 0 =>
      /\ v.pc \in {"details", "llm", "done"}
      /\ v.qi = v.kept
      /\ Len(v.searches) = v.kept
      /\ (v.pc = "done" /\ \A k \in 1..Len(v.evals) : ~v.evals[k].isValid)
           => v.result = None

\* The first query yielded a candidate that failed isValidMatch; null was
\* returned after that one search.
C15_Witness ==
  /\ inv[1].pc = "done"
  /\ inv[1].result = None
  /\ inv[1].kept = 1
  /\ inv[1].evals # <<>>
  /\ Len(inv[1].searches) = 1

(***************************************************************************)
(* Properties of the server (server.ts)                                    *)
(***************************************************************************)
\* The request carried the three parameters.
BodyComplete == http.body.name # <<>> /\ http.body.address # <<>> /\ http.body.postalCode # <<>>

\* C6: with all parameters and the key present the handler answers 200 with
\* the details exactly when the function resolved to non-null, and 404 with
\* an error body exactly when it resolved to null.
C6_StatusFollowsResult ==
  (http.state = "sent" /\ BodyComplete /\ GOOGLE_PLACES_API_KEY # <<>>) =>
    /\ inv[1].pc = "done"
    /\ http.status = 200 <=> inv[1].result # None
    /\ http.status = 404 <=> inv[1].result = None
    /\ http.status = 200 =>
         /\ http.json[1].placeId = inv[1].result[1].placeId
         /\ http.json[1].nom = inv[1].result[1].nom
         /\ http.json[1].adresse = inv[1].result[1].adresse
    /\ http.status = 404 => DOMAIN http.json[1] = {"error"}

\* A request was answered 200.
C6_Witness ==
  /\ http.state = "sent"
  /\ http.status = 200
  /\ inv[1].result # None

\* C7: a request lacking a truthy name, address or postalCode is answered 400
\* with an error body, with the key set or unset, and
\* getBusinessDetailsFromPlaces is not called.
C7_MissingParameters ==
  (http.state # "idle" /\ ~BodyComplete) =>
    /\ http.state = "sent"
    /\ http.status = 400
    /\ DOMAIN http.json[1] = {"error"}
    /\ inv[1].pc = "idle"
    /\ inv[1].searches = <<>>

\* A request without address was answered 400 although the key is unset.
C7_Witness ==
  /\ http.state = "sent"
  /\ http.status = 400
  /\ http.body.name # <<>>
  /\ http.body.address = <<>>
  /\ GOOGLE_PLACES_API_KEY = <<>>

\* C8: with all parameters present and GOOGLE_PLACES_API_KEY unset the
\* handler answers 500 with a "Server configuration error" body and does not
\* call getBusinessDetailsFromPlaces.
C8_KeyMissing ==
  GOOGLE_PLACES_API_KEY = <<>> =>
    /\ inv[1].pc = "idle"
    /\ inv[1].searches = <<>>
    /\ (http.state # "idle" /\ BodyComplete) =>
         /\ http.state = "sent"
         /\ http.status = 500
         /\ http.json[1] =
              [error |-> "Server configuration error: Google API Key missing."]

\* A complete request was answered 500 for the missing key.
C8_Witness ==
  /\ http.state = "sent"
  /\ http.status = 500
  /\ BodyComplete
  /\ GOOGLE_PLACES_API_KEY = <<>>

\* C9: the body of a 200 answer has the keys of the documented
\* BusinessDetailsResponse schema, among them name and address (and latitude
\* and longitude where the place has a geometry).
C9_BodyFollowsSchema ==
  (http.state = "sent" /\ http.status = 200) =>
    /\ DOMAIN http.json[1] \subseteq BusinessDetailsResponseKeys
    /\ {"name", "address"} \subseteq DOMAIN http.json[1]

(***************************************************************************)
(* Properties of part_002                                                  *)
(***************************************************************************)
\* C5: isValidMatch calls the model exactly when the found address contains
\* the postal code, fewer than half of the name words are common, some name
\* word is common or the addresses share enough words or the found address
\* contains the street searched for, and llmMatcher is set; a candidate the
\* model was asked about is accepted exactly when the label of the answer
\* contains "yes" in any letter case and its score is above 0.85.
C5_ModelIsTieBreaker ==
  \A i \in DOMAIN inv :
    LET v == inv[i] IN
    \A k \in 1..Len(v.evals) :
      LET e  == v.evals[k]
          S  == NameWords(v.businessName, commonWordsList)
          F  == NameWords(e.name, commonWordsList)
          n  == Len(SelectSeq(S, LAMBDA w : \E j \in 1..Len(F) : F[j] = w))
          m  == IF Len(S) >= Len(F) THEN Len(S) ELSE Len(F)
          ambiguous ==
            \/ n > 0
            \/ basicAddrWordOverlap(AddrWords(v.address), AddrWords(e.address))
            \/ addressContainsSearchStreet(AddrWords(v.address), e.address)
      IN  /\ e.asked <=>
               /\ Includes(e.address, v.postalCode)
               /\ 2 * n < (IF m = 0 THEN 1 ELSE m)
               /\ ambiguous
               /\ e.matcher
          /\ (e.asked /\ ~e.pending) =>
               (e.isValid <=>
                  /\ ~e.answer[1].threw
                  /\ Includes(ToLowerCase(e.answer[1].verdict.label), <<"y","e","s">>)
                  /\ e.answer[1].verdict.score > 85)

\* The model was asked about a candidate and its answer accepted it.
C5_Witness ==
  \E k \in 1..Len(inv[1].evals) :
    /\ inv[1].evals[k].asked
    /\ ~inv[1].evals[k].pending
    /\ inv[1].evals[k].isValid
    /\ inv[1].result # None

\* Whether llmMatcher was set at each isValidMatch call of an invocation.
MatcherTrace(v) == [k \in 1..Len(v.evals) |-> v.evals[k].matcher]

\* C10, as stated: two invocations given the same arguments, the same service
\* responses and the same model verdicts return the same result, whatever
\* other invocations did before or meanwhile.
C10_SameResult ==
  \A i, j \in DOMAIN inv :
    (/\ inv[i].pc = "done" /\ inv[j].pc = "done"
     /\ inv[i].businessName = inv[j].businessName
     /\ inv[i].address = inv[j].address
     /\ inv[i].postalCode = inv[j].postalCode)
    => inv[i].result = inv[j].result

\* C10, amended: two such invocations return the same result provided
\* llmMatcher, which the module keeps across invocations, was set or unset
\* alike at each of their isValidMatch calls.
C10_SameResultGivenMatcher ==
  \A i, j \in DOMAIN inv :
    (/\ inv[i].pc = "done" /\ inv[j].pc = "done"
     /\ inv[i].businessName = inv[j].businessName
     /\ inv[i].address = inv[j].address
     /\ inv[i].postalCode = inv[j].postalCode
     /\ MatcherTrace(inv[i]) = MatcherTrace(inv[j]))
    => inv[i].result = inv[j].result

\* Two invocations asked the model about the same candidate and returned the
\* same non-null result.
C10_Witness ==
  /\ inv[1].pc = "done" /\ inv[2].pc = "done"
  /\ inv[1].evals # <<>>
  /\ inv[1].evals[1].asked /\ inv[2].evals[1].asked
  /\ inv[1].result # None
  /\ inv[1].result = inv[2].result

(***************************************************************************)
(* Properties of the first variant (src/getBusinessDetailsFromPlaces.ts)   *)
(***************************************************************************)
\* C11: the first variant issues exactly one search, looks only at the first
\* candidate, returns null when there are no candidates, when the first
\* candidate has no place_id (whatever the later ones have), when the lookup
\* has no result or when a call throws, and otherwise returns the details of
\* the first candidate with no matching check, name and address falling
\* back to the arguments when the record lacks them.
C11_FirstCandidateOnly ==
  LET v == inv[1] IN
  /\ Len(v.searches) <= 1
  /\ v.pc # "idle" =>
       v.searches = << v.businessName \o <<",", " ">> \o v.address
                       \o <<",", " ">> \o v.postalCode >>
  /\ v.pc # "rejected"
  /\ v.evals = <<>>
  /\ \A k \in 1..Len(v.lookups) :
       /\ k = 1
       /\ v.answers # <<>> /\ v.answers[1] # <<>>
       /\ v.lookups[k] = v.answers[1][1].place_id
       /\ v.lookups[k] # ""
  /\ v.pc = "done" =>
       /\ v.result = None <=>
            \/ v.threw # {}
            \/ v.answers[1] = <<>>
            \/ v.answers[1][1].place_id = ""
            \/ v.found = None
       /\ v.result # None =>
            /\ v.lookups = <<v.answers[1][1].place_id>>
            /\ v.result[1].placeId = v.answers[1][1].place_id
            /\ v.result[1].name =
                 (IF v.found[1].name # <<>> THEN v.found[1].name ELSE v.businessName)
            /\ v.result[1].address =
                 (IF v.found[1].formatted_address # <<>>
                  THEN v.found[1].formatted_address ELSE v.address)

\* Details were returned for the first of two candidates, the name and the
\* address taken from the arguments.
C11_Witness ==
  /\ inv[1].pc = "done"
  /\ inv[1].result # None
  /\ Len(inv[1].answers[1]) = 2
  /\ inv[1].found[1].name = <<>>
  /\ inv[1].result[1].name = inv[1].businessName
  /\ inv[1].result[1].address = inv[1].address

(***************************************************************************)
(* Properties of isValidMatch (index.ts)                                   *)
(***************************************************************************)
\* How many of the words of S, counted with multiplicity, occur in F.
CommonCount(S, F) ==
  Cardinality({k \in 1..Len(S) : \E j \in 1..Len(F) : F[j] = S[k]})

\* max(|S|, |F|, 1)
LongerLength(S, F) ==
  IF Len(S) = 0 /\ Len(F) = 0 THEN 1
  ELSE IF Len(S) >= Len(F) THEN Len(S) ELSE Len(F)

\* The name overlap ratio of a call is at least 0.5.
RatioAtLeastHalf(v, e) ==
  LET S == NameWords(v.businessName, commonNameWordsToFilter)
      F == NameWords(e.name, commonNameWordsToFilter)
  IN  2 * CommonCount(S, F) >= LongerLength(S, F)

\* C16: whenever the found address contains the postal code searched for and
\* the name overlap ratio is at least 0.5, isValidMatch returns true without
\* asking the model, whatever the address searched for and the rest of the
\* found address.
C16_PrimaryRule ==
  \A k \in 1..Len(inv[1].evals) :
    LET e == inv[1].evals[k] IN
    (Includes(e.address, inv[1].postalCode) /\ RatioAtLeastHalf(inv[1], e))
      => (e.isValid /\ ~e.asked)

\* "Musee du Louvre" searched at an address that has nothing in common with
\* the found one was accepted at ratio 0.5.
C16_Witness ==
  /\ inv[1].businessName = MuseeDuLouvre
  /\ inv[1].address = AvenueFoch
  /\ inv[1].evals # <<>>
  /\ inv[1].evals[1].name = LouvreMuseum
  /\ inv[1].evals[1].address = Paris75001
  /\ inv[1].evals[1].isValid

\* C17: the secondary rule accepts what the primary rule did not: a call
\* for which the primary rule does not hit (no strong name match together
\* with the postal code in the found address) and whose names match strongly
\* while the addresses share enough words, or the found address contains the
\* primary street word searched for, returns true.
C17_SecondaryRuleApplies ==
  \A k \in 1..Len(inv[1].evals) :
    LET e == inv[1].evals[k]
        L == inv[1].found[1]
    IN  (/\ ~(L.strongNameMatch /\ Includes(e.address, inv[1].postalCode))
         /\ L.strongNameMatch
         /\ L.basicAddrWordOverlap \/ L.addressContainsSearchStreet)
        => e.isValid

\* C18: strongNameMatch holds exactly when twice the number of significant
\* search-name words (longer than 2, not in the common-word list, counted
\* with multiplicity) that occur among the significant found-name words is
\* at least max(|S|, |F|, 1); the ratio lies between 0 and 1 and is 0 when S
\* or F is empty; "Musee du Louvre" against "Louvre Museum" is strong at
\* exactly one half.
C18_StrongNameMatch ==
  inv[1].found # None =>
    LET L == inv[1].found[1]
        e == inv[1].evals[1]
        S == L.searchNameWords
        F == L.foundNameWords
        n == CommonCount(S, F)
        m == LongerLength(S, F)
    IN  /\ \A k \in 1..Len(S) : Len(S[k]) > 2 /\ S[k] \notin commonNameWordsToFilter
        /\ \A k \in 1..Len(F) : Len(F[k]) > 2 /\ F[k] \notin commonNameWordsToFilter
        /\ Len(L.nameWordIntersections) = n
        /\ L.strongNameMatch <=> 2 * n >= m
        /\ 0 <= n /\ n <= m
        /\ (S = <<>> \/ F = <<>>) => n = 0
        /\ (inv[1].businessName = MuseeDuLouvre /\ e.name = LouvreMuseum) =>
             /\ S = << <<"m","u","s","e","e">>, <<"l","o","u","v","r","e">> >>
             /\ F = << <<"l","o","u","v","r","e">> >>
             /\ 2 * n = m
             /\ L.strongNameMatch

\* "Musee du Louvre" was compared with "Louvre Museum".
C18_Witness ==
  /\ inv[1].found # None
  /\ inv[1].businessName = MuseeDuLouvre
  /\ inv[1].evals[1].name = LouvreMuseum
  /\ inv[1].found[1].strongNameMatch

WrittenWords(name) == Elems(SplitWhitespace(ToLowerCase(name)))

\* C20: every entry of the generic-word list longer than 2 characters,
\* accented or not, is filtered out: a name searched for or found that
\* contains the entry contributes no word for it to searchNameWords or
\* foundNameWords.
C20_ListWordsFiltered ==
  inv[1].found # None =>
    LET L == inv[1].found[1]
        searched == WrittenWords(inv[1].businessName)
        foundW   == WrittenWords(inv[1].evals[1].name)
    IN  \A w \in commonWordsList :
          Len(w) > 2 =>
            /\ w \in searched => normalize(w) \notin Elems(L.searchNameWords)
            /\ w \in foundW   => normalize(w) \notin Elems(L.foundNameWords)

====
